---- MODULE Spec2Model ----
(***************************************************************************)
(* DailyFlow dashboard (src/js/main.js): the habit-streak and statistics   *)
(* logic, the session handling (with the login and logout of              *)
(* src/js/auth.js), the timers, and the password reset of                  *)
(* forgot-password.js (src/unnamed/part_001), as a state machine.          *)
(*                                                                         *)
(* Calendar dates.  The program names a day by the string                  *)
(* new Date().toISOString().split('T')[0]; consecutive days have           *)
(* consecutive strings and the strings sort chronologically.  A date is    *)
(* modelled by its day number, so "one day earlier" (setDate(getDate()-1)) *)
(* is d - 1 and the order of the ISO strings is the order of the numbers.  *)
(* Time stamps (new Date().toISOString()) are kept at the granularity of   *)
(* the day they were taken on.  The program mixes local-time arithmetic    *)
(* with UTC strings; the day numbers assume no daylight-saving shift moves *)
(* a computed date across a UTC midnight.                                  *)
(*                                                                         *)
(* The specifications share the variables:                                 *)
(*   Spec              the habits page of a fresh account                  *)
(*   SpecCalendar      the day modal                                       *)
(*   SpecWeek          the weekly view of a habit with any completed dates *)
(*   SpecStats         the statistics page for any calendar and goals      *)
(*   SpecGoals         the goals page                                      *)
(*   SpecProjects      the projects page                                   *)
(*   SpecHabits        the habits page with habits added by saveHabit      *)
(*   SpecImport        the habits page after importData                    *)
(*   SpecNotifications the notifications panel                             *)
(*   SpecData          the data operations behind the rates                *)
(*   SpecSession       page loads, login, logout and the stored calendar   *)
(*   SpecFlow          the four steps of the password reset                *)
(*   SpecTimers        checkMissedDays and the daily reminder              *)
(***************************************************************************)
EXTENDS FiniteSets, Integers, Sequences, TLC

\* ------------------------------------------------------------------------
\* Bounds of the model
\* ------------------------------------------------------------------------
\* The days the clock runs through are 0..MaxDay.
MaxDay == 3

\* The days of the pure-function specification of the weekly view.
MaxWeekDay == 8

\* The most day records a calendar of the statistics specification holds.
MaxRecords == 30

\* The most goals the goals page holds.
MaxGoals == 2

\* The most projects the projects page holds.
MaxProjects == 1

\* The most notifications the array holds.
MaxNotifications == 3

\* The most habits the habits page holds when habits are added to it.
MaxHabits == 1

\* The most entries of an imported completedDates array that are no dates.
MaxMalformed == 2

\* The most redirects of one browser session the model follows.
MaxRedirects == 5

\* The clock of the forgot-password page runs through 0..MaxClock.
MaxClock == 2

VARIABLES
    today,             \* the current day, as new Date() reports it
    habits,            \* appData.habits
    calendar,          \* appData.calendar: date -> DayRecord
    notificationHead,  \* title of notifications[0], the newest notification
    toast,             \* text of the toast showToast displayed last
    rendered,          \* what renderModernHabitsList last put in #habitsList
    goals,             \* appData.goals
    projects,          \* appData.projects
    notifications,     \* the notifications array, index 1 first
    panelShown,        \* #notificationsPanel has the class 'show'
    stats,             \* what calculateAllStatistics returned last
    insights,          \* what generateInsights returned last
    localStorage,      \* the user key and the user's stored calendar
    sessionStorage,    \* redirect_count
    page,              \* the page the browser tab shows
    redirects,         \* redirects by handleNoUserSession in this browser session
    currentStep,       \* forgot-password.js: the step shown
    foundUser,         \* forgot-password.js: the account found, or null
    users,             \* dailyflow_users: username -> password
    verification,      \* dailyflow_verification_code
    countdownInterval, \* the expiry countdown is set
    codeGenerationInterval, \* the code-generation timer and its secondsLeft
    timeouts,          \* callbacks of setTimeout not yet run
    clock,             \* Date.now() of the forgot-password page, in units of 300000 ms
    timeOfDay,         \* the minute of the day against settings.dailyReminder
    checkedThisMinute  \* scheduleDailyReminder chains that ran in this minute

\* The variables the habits page and the day modal leave alone.
pageVars == <<goals, projects, notifications, panelShown, stats, insights>>

\* The variables of the session, of the forgot-password page and of the
\* reminder timers, which the pages of the dashboard leave alone.
sessionVars == <<sessionStorage, page, redirects>>

flowVars == <<currentStep, foundUser, users, verification, countdownInterval,
              codeGenerationInterval, timeouts, clock>>

timerVars == <<timeOfDay, checkedThisMinute>>

restVars == <<sessionVars, flowVars, timerVars>>

vars == <<today, habits, calendar, notificationHead, toast, rendered,
          goals, projects, notifications, panelShown, stats, insights,
          localStorage, sessionStorage, page, redirects,
          currentStep, foundUser, users, verification, countdownInterval,
          codeGenerationInterval, timeouts, clock, timeOfDay, checkedThisMinute>>

Days == 0..MaxDay
WeekDays == 0..MaxWeekDay

\* ------------------------------------------------------------------------
\* JavaScript helpers
\* ------------------------------------------------------------------------
Max(S) == CHOOSE m \in S : \A x \in S : x <= m

MaxOf(a, b) == IF a >= b THEN a ELSE b

\* Math.round(num / den) for num >= 0, den > 0: the nearest integer, halves up.
MathRound(num, den) == (2 * num + den) \div (2 * den)

RECURSIVE SeqSum(_)
SeqSum(s) == IF s = <<>> THEN 0 ELSE Head(s) + SeqSum(Tail(s))

\* ------------------------------------------------------------------------
\* habit.completedDates: an array of date strings.  No code that reads it
\* depends on the order of its elements (includes, filter, length, and a
\* sort before the scan), so the array is modelled as a multiset:
\* a function from the dates it holds to how many times it holds each.
\* ------------------------------------------------------------------------
emptyDates == [d \in {} |-> 1]

\* Mutant: no date is ever found in the array.
includes_Never(dates, d) == FALSE

includes(dates, d) == d \in DOMAIN dates

push(dates, d) ==
    [x \in DOMAIN dates \cup {d} |->
        IF x = d THEN (IF d \in DOMAIN dates THEN dates[d] + 1 ELSE 1)
        ELSE dates[x]]

\* completedDates.filter(date => date !== d)
without(dates, d) == [x \in DOMAIN dates \ {d} |-> dates[x]]

RECURSIVE length(_)
length(dates) ==
    IF DOMAIN dates = {} THEN 0
    ELSE LET m == Max(DOMAIN dates) IN dates[m] + length(without(dates, m))

datesOf(S) == [d \in S |-> 1]

\* ------------------------------------------------------------------------
\* initializeSampleData: the habits of a fresh account
\* ------------------------------------------------------------------------
sampleHabits ==
    << [id |-> 1, category |-> "Health", streak |-> 0,
        completedDates |-> emptyDates, updatedAt |-> {}],
       [id |-> 2, category |-> "Learning", streak |-> 0,
        completedDates |-> emptyDates, updatedAt |-> {}] >>

HabitIds == {sampleHabits[i].id : i \in DOMAIN sampleHabits}

\* appData.habits.find(h => h.id === habitId): the index of the first match,
\* 0 when there is none.
find(hs, habitId) ==
    IF \E i \in DOMAIN hs : hs[i].id = habitId
    THEN CHOOSE i \in DOMAIN hs :
            /\ hs[i].id = habitId
            /\ \A j \in DOMAIN hs : hs[j].id = habitId => i <= j
    ELSE 0

\* ------------------------------------------------------------------------
\* calculateCurrentStreak
\* ------------------------------------------------------------------------
RECURSIVE sortDescending(_)
sortDescending(dates) ==
    IF DOMAIN dates = {} THEN <<>>
    ELSE LET m == Max(DOMAIN dates)
         IN  [i \in 1..dates[m] |-> m] \o sortDescending(without(dates, m))

RECURSIVE streakScan(_, _, _)
streakScan(sortedDates, i, streak) ==
    IF i > Len(sortedDates) THEN streak
    ELSE IF sortedDates[i - 1] - 1 = sortedDates[i]
         THEN streakScan(sortedDates, i + 1, streak + 1)
         ELSE streak

\* Mutant: the return for an array without dates is missing.
calculateCurrentStreak_NoEmptyCheck(habit) ==
    streakScan(sortDescending(habit.completedDates), 2, 1)

calculateCurrentStreak(habit) ==
    IF length(habit.completedDates) = 0 THEN 0
    ELSE streakScan(sortDescending(habit.completedDates), 2, 1)

\* ------------------------------------------------------------------------
\* calculateCurrentStreak on an array with entries that are no dates.
\* importData takes completedDates from a file as it is, so an imported habit
\* may hold strings new Date() turns into Invalid Date.  No toggle adds or
\* removes them (includes and filter compare strings), so the habit keeps
\* their number in a field of its own, malformed; completedDates holds the
\* entries that parse.  An Invalid Date makes the comparator b - a return NaN,
\* an inconsistent comparator, and the order sort leaves the array in is then
\* implementation-defined: every permutation is an outcome.
\* ------------------------------------------------------------------------
malformed(habit) == IF "malformed" \in DOMAIN habit THEN habit.malformed ELSE 0

\* new Date(date) for an entry that parses, and for one that does not
validDate(d) == [valid |-> TRUE, day |-> d]

invalidDate == [valid |-> FALSE, day |-> 0]

\* completedDates.map(date => new Date(date))
parsedDates(habit) ==
    LET sorted == sortDescending(habit.completedDates)
    IN  [i \in 1..Len(sorted) |-> validDate(sorted[i])]
            \o [i \in 1..malformed(habit) |-> invalidDate]

\* The arrays sort can return for an array with an Invalid Date.
permutations(array) ==
    LET n == Len(array)
        bijections == {p \in [1..n -> 1..n] : \A i, j \in 1..n : p[i] = p[j] => i = j}
    IN  {[i \in 1..n |-> array[p[i]]] : p \in bijections}

\* prevDate.setDate(prevDate.getDate() - 1);
\* prevDate.toDateString() === currentDate.toDateString()
\* Both are "Invalid Date" when neither date is valid.
isDayBefore(prevDate, currentDate) ==
    \/ ~prevDate.valid /\ ~currentDate.valid
    \/ prevDate.valid /\ currentDate.valid /\ prevDate.day - 1 = currentDate.day

\* The for loop over parsed dates.
RECURSIVE parsedStreakScan(_, _, _)
parsedStreakScan(sortedDates, i, streak) ==
    IF i > Len(sortedDates) THEN streak
    ELSE IF isDayBefore(sortedDates[i - 1], sortedDates[i])
         THEN parsedStreakScan(sortedDates, i + 1, streak + 1)
         ELSE streak

\* The values calculateCurrentStreak can return: one value when every entry
\* parses, one for each order of the array otherwise.
calculateCurrentStreakOutcomes(habit) ==
    IF malformed(habit) = 0 THEN {calculateCurrentStreak(habit)}
    ELSE {parsedStreakScan(sortedDates, 2, 1) : sortedDates \in permutations(parsedDates(habit))}

\* ------------------------------------------------------------------------
\* getLast7DaysData, calculateWeeklyCompletion, renderModernHabitsList
\* ------------------------------------------------------------------------
WindowDays == 7

getLast7DaysData(habit, now) ==
    [k \in 1..WindowDays |->
        LET i == WindowDays - k
        IN  [date |-> now - i,
             completed |-> includes(habit.completedDates, now - i),
             isToday |-> (i = 0)]]

\* Mutant: the percentage is truncated instead of rounded.
calculateWeeklyCompletion_Truncated(weekData) ==
    (Cardinality({k \in DOMAIN weekData : weekData[k].completed}) * 100) \div WindowDays

calculateWeeklyCompletion(weekData) ==
    LET completedDays == Cardinality({k \in DOMAIN weekData : weekData[k].completed})
    IN  MathRound(completedDays * 100, WindowDays)

renderModernHabitsList(hs, now) ==
    [i \in DOMAIN hs |->
        [id |-> hs[i].id,
         streak |-> hs[i].streak,
         isCompletedToday |-> includes(hs[i].completedDates, now),
         weekData |-> getLast7DaysData(hs[i], now),
         weeklyCompletion |-> calculateWeeklyCompletion(getLast7DaysData(hs[i], now))]]

\* ------------------------------------------------------------------------
\* calculateHabitStats
\* ------------------------------------------------------------------------
calculateHabitStats(hs, now) ==
    LET totalHabits == Len(hs)
        habitsCompletedToday ==
            Cardinality({i \in DOMAIN hs : includes(hs[i].completedDates, now)})
    IN  [totalHabits |-> totalHabits,
         todayCompletion |->
            IF totalHabits > 0 THEN MathRound(habitsCompletedToday * 100, totalHabits)
            ELSE 0,
         totalStreak |-> SeqSum([i \in DOMAIN hs |-> hs[i].streak]),
         bestStreak |->
            IF totalHabits > 0 THEN Max({hs[i].streak : i \in DOMAIN hs}) ELSE 0]

\* ------------------------------------------------------------------------
\* toggleHabitCompletion(habitId): the "Mark Complete" button of a habit card
\* ------------------------------------------------------------------------
\* Mutant: the unmark branch removes today but forgets the streak.
markIncomplete_KeepsStreak(habit, now) ==
    [habit EXCEPT !.completedDates = without(habit.completedDates, now)]

\* The branch taken when today is in completedDates.
markIncomplete(habit, now) ==
    [habit EXCEPT !.completedDates = without(habit.completedDates, now),
                  !.streak = MaxOf(0, habit.streak - 1)]

\* Mutant: the mark branch restarts the streak at 1 whatever yesterday was.
markComplete_AlwaysOne(habit, now) ==
    [habit EXCEPT !.completedDates = push(habit.completedDates, now),
                  !.streak = 1]

\* The branch taken when today is not in completedDates.
markComplete(habit, now) ==
    LET dates == push(habit.completedDates, now)
        yesterdayStr == now - 1
    IN  [habit EXCEPT !.completedDates = dates,
                      !.streak = IF includes(dates, yesterdayStr)
                                 THEN habit.streak + 1
                                 ELSE 1]

\* The title of the notification the complete branch adds.
completionNotification(streak) ==
    IF streak = 7 THEN "7-Day Streak!"
    ELSE IF streak = 30 THEN "30-Day Streak!"
    ELSE "Habit Completed!"

toggleHabitCompletion(habitId) ==
    LET i == find(habits, habitId)
    IN  IF i = 0 THEN UNCHANGED vars
        ELSE LET habit == habits[i]
                 isCompleted == includes(habit.completedDates, today)
                 toggled == IF isCompleted THEN markIncomplete(habit, today)
                            ELSE markComplete(habit, today)
             IN  /\ habits' = [habits EXCEPT ![i] = [toggled EXCEPT !.updatedAt = {today}]]
                 /\ notificationHead' =
                        IF isCompleted THEN "Habit Marked Incomplete"
                        ELSE completionNotification(toggled.streak)
                 /\ rendered' = renderModernHabitsList(habits', today)
                 /\ UNCHANGED <<localStorage, restVars, today, calendar, toast, pageVars>>

\* ------------------------------------------------------------------------
\* toggleHabitDay(habitId, dateStr): a click on a cell of the week strip
\* ------------------------------------------------------------------------
\* Mutant: today counts as a past date.
isPastDate_IncludesToday(dateStr, now) == dateStr <= now

\* selectedDate < new Date(today)
isPastDate(dateStr, now) == dateStr < now

\* The habit after the toggle of a past date and the recomputation.
toggleDay(habit, dateStr) ==
    LET dates == IF includes(habit.completedDates, dateStr)
                 THEN without(habit.completedDates, dateStr)
                 ELSE push(habit.completedDates, dateStr)
        toggled == [habit EXCEPT !.completedDates = dates]
    IN  [toggled EXCEPT !.streak = calculateCurrentStreak(toggled)]

toggleHabitDay(habitId, dateStr) ==
    LET i == find(habits, habitId)
    IN  IF i = 0 THEN UNCHANGED vars
        ELSE IF ~isPastDate(dateStr, today)
        THEN /\ toast' = "You can only edit past dates"
             /\ UNCHANGED <<localStorage, restVars, today, habits, calendar, notificationHead, rendered, pageVars>>
        ELSE /\ \E streak \in calculateCurrentStreakOutcomes(toggleDay(habits[i], dateStr)) :
                    habits' = [habits EXCEPT
                                  ![i] = [toggleDay(habits[i], dateStr) EXCEPT
                                             !.streak = streak, !.updatedAt = {today}]]
             /\ toast' = IF includes(habits[i].completedDates, dateStr)
                         THEN "Removed completion"
                         ELSE "Marked as completed"
             /\ rendered' = renderModernHabitsList(habits', today)
             /\ UNCHANGED <<localStorage, restVars, today, calendar, notificationHead, pageVars>>

\* ------------------------------------------------------------------------
\* deleteHabit(habitId); confirmed is the answer to the confirm() dialog
\* ------------------------------------------------------------------------
deleteHabit(habitId, confirmed) ==
    LET i == find(habits, habitId)
    IN  IF i = 0 \/ ~confirmed THEN UNCHANGED vars
        ELSE /\ habits' = SelectSeq(habits, LAMBDA h : h.id # habitId)
             /\ notificationHead' = "Habit Deleted"
             /\ toast' = "Habit deleted successfully!"
             /\ rendered' = renderModernHabitsList(habits', today)
             /\ UNCHANGED <<localStorage, restVars, today, calendar, pageVars>>

\* ------------------------------------------------------------------------
\* The clock: midnight passes.
\* ------------------------------------------------------------------------
NextDay ==
    /\ today < MaxDay
    /\ today' = today + 1
    /\ UNCHANGED <<localStorage, restVars, habits, calendar, notificationHead, toast,
                   rendered, pageVars>>

\* ------------------------------------------------------------------------
\* initializeCalendar: a record for every day of the current year
\* ------------------------------------------------------------------------
plannedDay == [status |-> "planned", actualHours |-> 0, tasks |-> <<>>]

initializeCalendar == [d \in Days |-> plannedDay]

\* ------------------------------------------------------------------------
\* initializeSampleData: the goals and the project of a fresh account.
\* A goal is kept as id, status and category, a project as id, status and
\* progress.  category = "" stands for a goal without the field: the only
\* code that reads it here, goal.category || 'personal', takes both as falsy.
\* ------------------------------------------------------------------------
sampleGoals ==
    << [id |-> 1, status |-> "active", category |-> ""],
       [id |-> 2, status |-> "active", category |-> ""] >>

sampleProjects == << [id |-> 1, status |-> "inprogress", progress |-> 80] >>

\* The notification addNotification builds at time now; id is Date.now() and
\* timestamp new Date().toISOString(), both taken at the same instant.
notification(title, now) == [id |-> now, title |-> title, read |-> FALSE, timestamp |-> now]

\* The account was created, and the welcome notification added, on the first
\* day of the model.
welcomeNotifications == << notification("Welcome to DailyFlow!", 0) >>

\* calculateAllStatistics and generateInsights have not run yet.
notLoaded == <<>>

\* ------------------------------------------------------------------------
\* Local storage.  Of the keys, the model follows the user key that
\* checkForValidUser finds ("" when no key holds a user) and the calendar
\* LocalStorageManager keeps under dailyflow_<user>_calendar; a key that is
\* not set loads as {}, the calendar without records.
\* ------------------------------------------------------------------------
emptyCalendar == [d \in {} |-> plannedDay]

\* storage.save('calendar', appData.calendar)
saveAppData(storage, cal) == [storage EXCEPT !.calendar = cal]

\* localStorage.clear()
clearedStorage == [user |-> "", calendar |-> emptyCalendar]

\* sessionStorage without redirect_count: getItem(..) || 0 reads it as 0.
clearedSession == [redirect_count |-> 0]

\* ------------------------------------------------------------------------
\* forgot-password.js at script load.  foundUser is null or the account
\* findUserInLocalStorage returned, without foundUser.verificationCode, which
\* is written and never read; a code is the sequence of its digits.
\* ------------------------------------------------------------------------
null == [username |-> "", password |-> ""]

\* localStorage without dailyflow_verification_code: JSON.parse('{}').
noCode == [code |-> <<>>, username |-> "", expiresAt |-> 0]

\* dailyflow_users before the flow: two accounts with their passwords.
registeredUsers == [u \in {"ann", "bob"} |-> "Oldpass1"]

noInterval == [running |-> FALSE, secondsLeft |-> 0]

scriptLoaded ==
    /\ currentStep = 1
    /\ foundUser = null
    /\ users = registeredUsers
    /\ verification = noCode
    /\ countdownInterval = FALSE
    /\ codeGenerationInterval = noInterval
    /\ timeouts = {}
    /\ clock = 0

\* ------------------------------------------------------------------------
\* The dashboard open for a logged-in user whose calendar is stored; the
\* forgot-password page is not in use and it is not yet the reminder minute.
\* ------------------------------------------------------------------------
dashboardOpen ==
    /\ localStorage = [user |-> "user", calendar |-> calendar]
    /\ sessionStorage = clearedSession
    /\ page = "dashboard.html"
    /\ redirects = 0
    /\ scriptLoaded
    /\ timeOfDay = "before"
    /\ checkedThisMinute = {}

\* ------------------------------------------------------------------------
\* The dashboard of a fresh account after DOMContentLoaded, on any day.
\* ------------------------------------------------------------------------
Init ==
    /\ today \in Days
    /\ habits = sampleHabits
    /\ calendar = initializeCalendar
    /\ notificationHead = "Welcome to DailyFlow!"
    /\ toast = "none"
    /\ rendered = <<>>
    /\ goals = sampleGoals
    /\ projects = sampleProjects
    /\ notifications = welcomeNotifications
    /\ panelShown = FALSE
    /\ stats = notLoaded
    /\ insights = notLoaded
    /\ dashboardOpen

ToggleHabitCompletion == \E habitId \in HabitIds : toggleHabitCompletion(habitId)

ToggleHabitDay == \E habitId \in HabitIds, dateStr \in Days : toggleHabitDay(habitId, dateStr)

DeleteHabit == \E habitId \in HabitIds, confirmed \in BOOLEAN : deleteHabit(habitId, confirmed)

Next ==
    \/ ToggleHabitCompletion
    \/ ToggleHabitDay
    \/ DeleteHabit
    \/ NextDay

Spec == Init /\ [][Next]_vars

\* ------------------------------------------------------------------------
\* saveDayData(dateStr) and deleteDayData(dateStr): the day modal.
\* A DayRecord is kept as the fields the statistics read: status, actualHours
\* and tasks (the completed flag of each task with a text); the three are the
\* values of the modal's inputs.
\* ------------------------------------------------------------------------
Statuses == {"planned", "inprogress", "completed", "missed"}

HoursInputs == {0, 2}

\* appData.calendar with calendar[dateStr] = record
store(cal, dateStr, record) ==
    [d \in DOMAIN cal \cup {dateStr} |-> IF d = dateStr THEN record ELSE cal[d]]

\* delete appData.calendar[dateStr]
remove(cal, dateStr) == [d \in DOMAIN cal \ {dateStr} |-> cal[d]]

saveDayData(dateStr, status, actualHours, tasks) ==
    /\ calendar' = store(calendar, dateStr,
                         [status |-> status, actualHours |-> actualHours, tasks |-> tasks])
    /\ notificationHead' =
          IF status = "completed" /\ actualHours > 0 THEN "Day Completed!"
          ELSE notificationHead
    /\ toast' = "Day saved successfully!"
    /\ localStorage' = saveAppData(localStorage, calendar')
    /\ UNCHANGED <<restVars, today, habits, rendered, pageVars>>

deleteDayData(dateStr, confirmed) ==
    IF ~confirmed THEN UNCHANGED vars
    ELSE /\ calendar' = remove(calendar, dateStr)
         /\ toast' = "Day data deleted"
         /\ localStorage' = saveAppData(localStorage, calendar')
         /\ UNCHANGED <<restVars, today, habits, notificationHead, rendered, pageVars>>

\* ------------------------------------------------------------------------
\* calculateStreaks: the streaks of the calendar itself
\* ------------------------------------------------------------------------
isCompletedDay(cal, d) == d \in DOMAIN cal /\ cal[d].status = "completed"

\* Mutant: the walk goes on through any record that exists, whatever its status.
RECURSIVE currentStreakWalk_AnyStatus(_, _, _)
currentStreakWalk_AnyStatus(cal, checkDate, currentStreak) ==
    IF checkDate \in DOMAIN cal
    THEN currentStreakWalk_AnyStatus(cal, checkDate - 1, currentStreak + 1)
    ELSE currentStreak

\* The while loop: checkDate steps back a day while its record is completed.
RECURSIVE currentStreakWalk(_, _, _)
currentStreakWalk(cal, checkDate, currentStreak) ==
    IF isCompletedDay(cal, checkDate)
    THEN currentStreakWalk(cal, checkDate - 1, currentStreak + 1)
    ELSE currentStreak

\* Object.keys(appData.calendar).sort()
RECURSIVE sortAscending(_)
sortAscending(S) ==
    IF S = {} THEN <<>>
    ELSE LET m == Max(S) IN Append(sortAscending(S \ {m}), m)

\* Mutant: bestStreak is compared with tempStreak before the increment.
RECURSIVE bestStreakScan_StaleTemp(_, _, _, _, _)
bestStreakScan_StaleTemp(cal, sortedDates, i, tempStreak, bestStreak) ==
    IF i > Len(sortedDates) THEN bestStreak
    ELSE IF isCompletedDay(cal, sortedDates[i])
         THEN bestStreakScan_StaleTemp(cal, sortedDates, i + 1, tempStreak + 1,
                                       MaxOf(bestStreak, tempStreak))
         ELSE bestStreakScan_StaleTemp(cal, sortedDates, i + 1, 0, bestStreak)

\* The forEach over the sorted keys, from index i on.
RECURSIVE bestStreakScan(_, _, _, _, _)
bestStreakScan(cal, sortedDates, i, tempStreak, bestStreak) ==
    IF i > Len(sortedDates) THEN bestStreak
    ELSE IF isCompletedDay(cal, sortedDates[i])
         THEN bestStreakScan(cal, sortedDates, i + 1, tempStreak + 1,
                             MaxOf(bestStreak, tempStreak + 1))
         ELSE bestStreakScan(cal, sortedDates, i + 1, 0, bestStreak)

calculateStreaks(cal, now) ==
    [currentStreak |-> currentStreakWalk(cal, now, 0),
     bestStreak |-> bestStreakScan(cal, sortAscending(DOMAIN cal), 1, 0, 0)]

SaveDayData ==
    \E dateStr \in Days, status \in Statuses, actualHours \in HoursInputs :
        saveDayData(dateStr, status, actualHours, <<>>)

DeleteDayData == \E dateStr \in Days, confirmed \in BOOLEAN : deleteDayData(dateStr, confirmed)

NextCalendar ==
    \/ SaveDayData
    \/ DeleteDayData
    \/ NextDay

SpecCalendar == Init /\ [][NextCalendar]_vars

\* ------------------------------------------------------------------------
\* The weekly view as a function of a habit: the habits page is rendered for
\* a habit with any set of completed dates up to today.
\* ------------------------------------------------------------------------
InitWeek ==
    /\ today \in WeekDays
    /\ \E S \in SUBSET (0..today) :
          habits = << [sampleHabits[1] EXCEPT
                          !.completedDates = datesOf(S),
                          !.streak = calculateCurrentStreak([completedDates |-> datesOf(S)])] >>
    /\ calendar = initializeCalendar
    /\ notificationHead = "Welcome to DailyFlow!"
    /\ toast = "none"
    /\ rendered = <<>>
    /\ goals = sampleGoals
    /\ projects = sampleProjects
    /\ notifications = welcomeNotifications
    /\ panelShown = FALSE
    /\ stats = notLoaded
    /\ insights = notLoaded
    /\ dashboardOpen

\* showPage('habits') -> loadHabitsPage -> renderModernHabitsList
LoadHabitsPage ==
    /\ rendered' = renderModernHabitsList(habits, today)
    /\ UNCHANGED <<localStorage, restVars, today, habits, calendar, notificationHead, toast, pageVars>>

NextWeek == LoadHabitsPage

SpecWeek == InitWeek /\ [][NextWeek]_vars

\* ------------------------------------------------------------------------
\* calculateAllStatistics: the snapshot the statistics page shows.
\* The rates are its local constants of the same names.  avgDailyHours (a
\* toFixed(1) display string) and the hours of the category breakdown (always
\* 0) are not kept.
\* ------------------------------------------------------------------------
completedDays(cal) == Cardinality({d \in DOMAIN cal : cal[d].status = "completed"})

\* Mutant: the rate is cut off to a whole number instead of rounded.
completionRate_Truncated(cal) ==
    LET totalDays == Cardinality(DOMAIN cal)
    IN  IF totalDays > 0 THEN (completedDays(cal) * 100) \div totalDays ELSE 0

completionRate(cal) ==
    LET totalDays == Cardinality(DOMAIN cal)
    IN  IF totalDays > 0 THEN MathRound(completedDays(cal) * 100, totalDays) ELSE 0

\* Object.values(calendar).reduce((sum, day) => sum + (day.actualHours || 0), 0)
RECURSIVE totalHours(_)
totalHours(cal) ==
    IF DOMAIN cal = {} THEN 0
    ELSE LET d == Max(DOMAIN cal) IN cal[d].actualHours + totalHours(remove(cal, d))

\* items.filter(x => x.status === 'completed').length, for goals and projects
completedCount(items) == Cardinality({i \in DOMAIN items : items[i].status = "completed"})

\* Mutant: with no goals at all, every goal counts as completed.
goalCompletionRate_EmptyIsFull(gs) ==
    IF Len(gs) > 0 THEN MathRound(completedCount(gs) * 100, Len(gs)) ELSE 100

goalCompletionRate(gs) ==
    IF Len(gs) > 0 THEN MathRound(completedCount(gs) * 100, Len(gs)) ELSE 0

\* Mutant: the project rate is a per mille value.
projectCompletionRate_PerMille(ps) ==
    IF Len(ps) > 0 THEN MathRound(completedCount(ps) * 1000, Len(ps)) ELSE 0

projectCompletionRate(ps) ==
    IF Len(ps) > 0 THEN MathRound(completedCount(ps) * 100, Len(ps)) ELSE 0

\* habits.filter(h => h.status === 'active').length: a habit is stored without
\* a status field, so no habit passes the filter.
activeHabits(hs) == Cardinality({i \in DOMAIN hs : FALSE})

\* Math.round((activeHabits / Math.max(totalHabits, 1)) * 100)
habitCompletionRate(hs) == MathRound(activeHabits(hs) * 100, MaxOf(Len(hs), 1))

avgHabitStreak(hs) ==
    IF Len(hs) > 0 THEN MathRound(SeqSum([i \in DOMAIN hs |-> hs[i].streak]), Len(hs))
    ELSE 0

\* The keys of the categoryBreakdown object.
BreakdownCategories == {"study", "work", "personal", "health"}

\* x.category || fallback
categoryOr(category, fallback) == IF category = "" THEN fallback ELSE category

\* The two forEach loops: an item is counted under its category when
\* categoryBreakdown[category] exists.  completed is kept in sevenths: a
\* completed goal adds 1, a habit adds completedDates.length / 7.
categoryBreakdown(gs, hs) ==
    [c \in BreakdownCategories |->
        LET goalsIn == {i \in DOMAIN gs : categoryOr(gs[i].category, "personal") = c}
            habitsIn == {i \in DOMAIN hs : categoryOr(hs[i].category, "health") = c}
        IN  [total |-> Cardinality(goalsIn) + Cardinality(habitsIn),
             completedSevenths |->
                 7 * Cardinality({i \in goalsIn : gs[i].status = "completed"})
                 + SeqSum([i \in DOMAIN hs |->
                              IF i \in habitsIn THEN length(hs[i].completedDates) ELSE 0])]]

calculateAllStatistics(cal, gs, ps, hs, now) ==
    [totalDays |-> Cardinality(DOMAIN cal),
     completedDays |-> completedDays(cal),
     completionRate |-> completionRate(cal),
     totalHours |-> totalHours(cal),
     goals |-> [total |-> Len(gs), completed |-> completedCount(gs),
                rate |-> goalCompletionRate(gs)],
     projects |-> [total |-> Len(ps), completed |-> completedCount(ps),
                   rate |-> projectCompletionRate(ps)],
     habits |-> [total |-> Len(hs), active |-> activeHabits(hs),
                 completions |-> SeqSum([i \in DOMAIN hs |-> length(hs[i].completedDates)]),
                 avgStreak |-> avgHabitStreak(hs)],
     streak |-> [current |-> calculateStreaks(cal, now).currentStreak,
                 best |-> calculateStreaks(cal, now).bestStreak],
     categoryBreakdown |-> categoryBreakdown(gs, hs),
     habitCompletionRate |-> habitCompletionRate(hs),
     trend |-> IF completionRate(cal) > 50 THEN 12 ELSE -5,
     hourTrend |-> IF totalHours(cal) > 100 THEN 8 ELSE -2]

\* ------------------------------------------------------------------------
\* generateInsights(stats): the insight cards, each kept as type and title.
\* The title of the streak card starts with the length of the streak; the
\* model keeps the rest of it.
\* ------------------------------------------------------------------------
card(type, title) == [type |-> type, title |-> title]

consistencyInsight(st) ==
    IF st.completionRate >= 80 THEN card("success", "Outstanding Consistency!")
    ELSE IF st.completionRate >= 60 THEN card("info", "Good Progress")
    ELSE card("warning", "Consistency Needed")

goalInsight(st) ==
    IF st.goals.rate >= 70 THEN << card("success", "Goal Crusher!") >>
    ELSE IF st.goals.total = 0 THEN << card("info", "No Goals Set") >>
    ELSE <<>>

\* Mutant: a streak of a single day already earns the streak card.
streakInsight_AnyStreak(st) ==
    IF st.streak.current >= 1 THEN << card("success", "-Day Streak!") >> ELSE <<>>

streakInsight(st) ==
    IF st.streak.current >= 7 THEN << card("success", "-Day Streak!") >> ELSE <<>>

hoursInsight(st) ==
    IF st.totalHours > 100 THEN << card("success", "Learning Champion") >> ELSE <<>>

habitInsight(st) ==
    IF st.habits.active > 0 /\ st.habitCompletionRate < 50
    THEN << card("warning", "Habit Consistency") >>
    ELSE <<>>

genericTips == << card("info", "Optimal Study Time"), card("info", "Rest is Productive") >>

\* while (insights.length < 4): shift a tip in, or break when none is left.
RECURSIVE fillWithTips(_, _)
fillWithTips(cards, tips) ==
    IF Len(cards) < 4 /\ Len(tips) > 0
    THEN fillWithTips(Append(cards, Head(tips)), Tail(tips))
    ELSE cards

generateInsights(st) ==
    fillWithTips(<< consistencyInsight(st) >> \o goalInsight(st) \o streakInsight(st)
                     \o hoursInsight(st) \o habitInsight(st),
                 genericTips)

\* ------------------------------------------------------------------------
\* The statistics page as a function of the data: the page is loaded for a
\* calendar of any number of records up to MaxRecords on the days up to
\* today, some of them completed (the most recent ones or the oldest ones),
\* every completed record with the same hours, and for the sample goals in any
\* status or no goals at all.
\* ------------------------------------------------------------------------
RecordHours == {0, 2, 12}

GoalStatuses == {"active", "completed"}

\* The calendar with records on the last total days, completedCount of them
\* completed with the given hours: the latest ones when recent, else the oldest.
calendarOf(now, total, completedCnt, recent, hours) ==
    [d \in (now - total + 1)..now |->
        IF (recent /\ d > now - completedCnt) \/ (~recent /\ d <= now - total + completedCnt)
        THEN [status |-> "completed", actualHours |-> hours, tasks |-> <<>>]
        ELSE plannedDay]

InitStats ==
    /\ today = MaxRecords
    /\ \E total \in 0..MaxRecords :
          \E completedCnt \in 0..total, recent \in BOOLEAN, hours \in RecordHours :
              calendar = calendarOf(today, total, completedCnt, recent, hours)
    /\ \/ goals = <<>>
       \/ \E s1, s2 \in GoalStatuses :
             goals = << [sampleGoals[1] EXCEPT !.status = s1],
                        [sampleGoals[2] EXCEPT !.status = s2] >>
    /\ habits = sampleHabits
    /\ projects = sampleProjects
    /\ notificationHead = "Welcome to DailyFlow!"
    /\ toast = "none"
    /\ rendered = <<>>
    /\ notifications = welcomeNotifications
    /\ panelShown = FALSE
    /\ stats = notLoaded
    /\ insights = notLoaded
    /\ dashboardOpen

\* showPage('statistics') -> loadStatsPage: the snapshot and its insights
LoadStatsPage ==
    /\ stats' = calculateAllStatistics(calendar, goals, projects, habits, today)
    /\ insights' = generateInsights(stats')
    /\ UNCHANGED <<localStorage, restVars, today, habits, calendar, notificationHead, toast, rendered,
                   goals, projects, notifications, panelShown>>

NextStats == LoadStatsPage

SpecStats == InitStats /\ [][NextStats]_vars

\* ------------------------------------------------------------------------
\* The goals page: saveGoal, updateGoal, toggleGoalStatus, deleteGoal.
\* titled says whether the title input holds text; category and status are
\* the values of the form's selects; confirmed is the answer to confirm().
\* ------------------------------------------------------------------------
\* The options of the goalCategory select.
GoalCategories == {"study", "career", "health", "personal", "financial", "other"}

\* Date.now() as the id of a new item: a number no stored item has.  Which
\* number is immaterial; the model takes the least one.
newId(items) ==
    CHOOSE n \in 1..(Len(items) + 1) :
        /\ \A i \in DOMAIN items : items[i].id # n
        /\ \A k \in 1..(n - 1) : \E i \in DOMAIN items : items[i].id = k

saveGoal(titled, category) ==
    IF ~titled
    THEN /\ toast' = "Please enter a goal title"
         /\ UNCHANGED <<localStorage, restVars, today, habits, calendar, notificationHead, rendered, pageVars>>
    ELSE /\ goals' = Append(goals, [id |-> newId(goals), status |-> "active",
                                    category |-> category])
         /\ notificationHead' = "New Goal Created!"
         /\ toast' = "Goal created successfully!"
         /\ UNCHANGED <<localStorage, restVars, today, habits, calendar, rendered,
                        projects, notifications, panelShown, stats, insights>>

updateGoal(goalId, titled, category, status) ==
    LET i == find(goals, goalId)
    IN  IF i = 0 THEN UNCHANGED vars
        ELSE IF ~titled
        THEN /\ toast' = "Please enter a goal title"
             /\ UNCHANGED <<localStorage, restVars, today, habits, calendar, notificationHead, rendered, pageVars>>
        ELSE /\ goals' = [goals EXCEPT ![i].category = category, ![i].status = status]
             /\ notificationHead' = "Goal Updated"
             /\ toast' = "Goal updated successfully!"
             /\ UNCHANGED <<localStorage, restVars, today, habits, calendar, rendered,
                            projects, notifications, panelShown, stats, insights>>

toggleGoalStatus(goalId) ==
    LET i == find(goals, goalId)
    IN  IF i = 0 THEN UNCHANGED vars
        ELSE LET status == IF goals[i].status = "completed" THEN "active" ELSE "completed"
             IN  /\ goals' = [goals EXCEPT ![i].status = status]
                 /\ notificationHead' =
                       IF status = "completed" THEN "Goal Completed!" ELSE notificationHead
                 /\ toast' = IF status = "completed" THEN "Goal marked as completed"
                             ELSE "Goal marked as active"
                 /\ UNCHANGED <<localStorage, restVars, today, habits, calendar, rendered,
                                projects, notifications, panelShown, stats, insights>>

deleteGoal(goalId, confirmed) ==
    LET i == find(goals, goalId)
    IN  IF i = 0 \/ ~confirmed THEN UNCHANGED vars
        ELSE /\ goals' = SelectSeq(goals, LAMBDA g : g.id # goalId)
             /\ notificationHead' = "Goal Deleted"
             /\ toast' = "Goal deleted successfully!"
             /\ UNCHANGED <<localStorage, restVars, today, habits, calendar, rendered,
                            projects, notifications, panelShown, stats, insights>>

\* The ids of the goals the page can show: at most MaxGoals goals are kept.
GoalIds == 1..MaxGoals

SaveGoal ==
    /\ Len(goals) < MaxGoals
    /\ \E titled \in BOOLEAN, category \in GoalCategories : saveGoal(titled, category)

UpdateGoal ==
    \E goalId \in GoalIds, titled \in BOOLEAN, category \in GoalCategories,
       status \in GoalStatuses :
        updateGoal(goalId, titled, category, status)

ToggleGoalStatus == \E goalId \in GoalIds : toggleGoalStatus(goalId)

DeleteGoal == \E goalId \in GoalIds, confirmed \in BOOLEAN : deleteGoal(goalId, confirmed)

NextGoals ==
    \/ SaveGoal
    \/ UpdateGoal
    \/ ToggleGoalStatus
    \/ DeleteGoal

SpecGoals == Init /\ [][NextGoals]_vars

\* ------------------------------------------------------------------------
\* The projects page: saveProject, updateProject, updateProjectProgress,
\* toggleProjectStatus, deleteProject.  named says whether the name input
\* holds text; status is the value of the status select and progress the
\* value of the range input (min 0, max 100), which parseInt reads.
\* ------------------------------------------------------------------------
\* The options of the projectStatus select.
ProjectStatuses == {"planned", "inprogress", "completed"}

\* Values the progress slider is left at.
SliderValues == {0, 50, 100}

saveProject(named, status, progress) ==
    IF ~named
    THEN /\ toast' = "Please enter a project name"
         /\ UNCHANGED <<localStorage, restVars, today, habits, calendar, notificationHead, rendered, pageVars>>
    ELSE /\ projects' = Append(projects, [id |-> newId(projects), status |-> status,
                                          progress |-> progress])
         /\ notificationHead' = "New Project Added"
         /\ toast' = "Project saved successfully!"
         /\ UNCHANGED <<localStorage, restVars, today, habits, calendar, rendered,
                        goals, notifications, panelShown, stats, insights>>

updateProject(projectId, named, status, progress) ==
    LET i == find(projects, projectId)
    IN  IF i = 0 THEN UNCHANGED vars
        ELSE IF ~named
        THEN /\ toast' = "Please enter a project name"
             /\ UNCHANGED <<localStorage, restVars, today, habits, calendar, notificationHead, rendered, pageVars>>
        ELSE /\ projects' = [projects EXCEPT ![i].status = status, ![i].progress = progress]
             /\ notificationHead' = "Project Updated"
             /\ toast' = "Project updated successfully!"
             /\ UNCHANGED <<localStorage, restVars, today, habits, calendar, rendered,
                            goals, notifications, panelShown, stats, insights>>

\* The answer to prompt(): entered is FALSE for Cancel (null); numeric says
\* whether parseInt of the text is a number, and value is that number.
cancelled == [entered |-> FALSE, numeric |-> FALSE, value |-> 0]

notANumber == [entered |-> TRUE, numeric |-> FALSE, value |-> 0]

number(n) == [entered |-> TRUE, numeric |-> TRUE, value |-> n]

\* Mutant: every number is taken as a progress.
validProgress_AnyNumber(answer) == answer.numeric

\* !isNaN(progress) && progress >= 0 && progress <= 100
validProgress(answer) == answer.numeric /\ answer.value >= 0 /\ answer.value <= 100

updateProjectProgress(projectId, answer) ==
    LET i == find(projects, projectId)
    IN  IF i = 0 \/ ~answer.entered THEN UNCHANGED vars
        ELSE IF ~validProgress(answer)
        THEN /\ toast' = "Please enter a valid percentage (0-100)"
             /\ UNCHANGED <<localStorage, restVars, today, habits, calendar, notificationHead, rendered, pageVars>>
        ELSE LET completes == answer.value = 100 /\ projects[i].status # "completed"
             IN  /\ projects' =
                       [projects EXCEPT
                           ![i].progress = answer.value,
                           ![i].status = IF completes THEN "completed" ELSE @]
                 /\ notificationHead' =
                       IF completes THEN "Project Completed!" ELSE notificationHead
                 /\ toast' = "Progress updated successfully!"
                 /\ UNCHANGED <<localStorage, restVars, today, habits, calendar, rendered,
                                goals, notifications, panelShown, stats, insights>>

toggleProjectStatus(projectId) ==
    LET i == find(projects, projectId)
    IN  IF i = 0 THEN UNCHANGED vars
        ELSE LET oldStatus == projects[i].status
                 status == IF oldStatus = "completed" THEN "inprogress" ELSE "completed"
             IN  /\ projects' =
                       [projects EXCEPT
                           ![i].status = status,
                           ![i].progress =
                               IF status = "completed" THEN 100
                               ELSE IF oldStatus = "completed" /\ @ = 100 THEN 90
                               ELSE @]
                 /\ notificationHead' =
                       IF status = "completed" THEN "Project Completed!" ELSE notificationHead
                 /\ toast' = IF status = "completed" THEN "Project marked as completed"
                             ELSE "Project marked as inprogress"
                 /\ UNCHANGED <<localStorage, restVars, today, habits, calendar, rendered,
                                goals, notifications, panelShown, stats, insights>>

deleteProject(projectId, confirmed) ==
    LET i == find(projects, projectId)
    IN  IF i = 0 \/ ~confirmed THEN UNCHANGED vars
        ELSE /\ projects' = SelectSeq(projects, LAMBDA p : p.id # projectId)
             /\ notificationHead' = "Project Deleted"
             /\ toast' = "Project deleted successfully!"
             /\ UNCHANGED <<localStorage, restVars, today, habits, calendar, rendered,
                            goals, notifications, panelShown, stats, insights>>

\* The ids of the projects the page can show: at most MaxProjects are kept.
ProjectIds == 1..MaxProjects

\* Numbers typed into the prompt, in and out of the range.
PromptNumbers == {-1, 0, 50, 100, 101}

PromptAnswers == {cancelled, notANumber} \cup {number(n) : n \in PromptNumbers}

SaveProject ==
    /\ Len(projects) < MaxProjects
    /\ \E named \in BOOLEAN, status \in ProjectStatuses, progress \in SliderValues :
          saveProject(named, status, progress)

UpdateProject ==
    \E projectId \in ProjectIds, named \in BOOLEAN, status \in ProjectStatuses,
       progress \in SliderValues :
        updateProject(projectId, named, status, progress)

UpdateProjectProgress ==
    \E projectId \in ProjectIds, answer \in PromptAnswers :
        updateProjectProgress(projectId, answer)

ToggleProjectStatus == \E projectId \in ProjectIds : toggleProjectStatus(projectId)

DeleteProject ==
    \E projectId \in ProjectIds, confirmed \in BOOLEAN : deleteProject(projectId, confirmed)

NextProjects ==
    \/ SaveProject
    \/ UpdateProject
    \/ UpdateProjectProgress
    \/ ToggleProjectStatus
    \/ DeleteProject

SpecProjects == Init /\ [][NextProjects]_vars

\* ------------------------------------------------------------------------
\* saveHabit: the add-habit modal of the habits page.  named says whether the
\* name input holds text; category is the value of the habitCategory select.
\* ------------------------------------------------------------------------
\* The options of the habitCategory select.
HabitCategories == {"health", "learning", "productivity", "mindfulness", "social", "general"}

\* The category chosen in the model; nothing on the habits page reads it.
HabitCategoryInputs == {"learning"}

saveHabit(named, category) ==
    IF ~named
    THEN /\ toast' = "Please enter a habit name"
         /\ UNCHANGED <<localStorage, restVars, today, habits, calendar, notificationHead, rendered, pageVars>>
    ELSE /\ habits' = Append(habits, [id |-> newId(habits), category |-> category,
                                      streak |-> 0, completedDates |-> emptyDates,
                                      updatedAt |-> {today}])
         /\ notificationHead' = "New Habit Added"
         /\ toast' = "Habit saved successfully!"
         /\ rendered' = renderModernHabitsList(habits', today)
         /\ UNCHANGED <<localStorage, restVars, today, calendar, pageVars>>

\* The habits page of an account whose sample habits have been deleted: every
\* habit on it comes from saveHabit, and at most MaxHabits are kept.
InitHabits ==
    /\ today \in Days
    /\ habits = <<>>
    /\ calendar = initializeCalendar
    /\ notificationHead = "Habit Deleted"
    /\ toast = "Habit deleted successfully!"
    /\ rendered = <<>>
    /\ goals = sampleGoals
    /\ projects = sampleProjects
    /\ notifications = welcomeNotifications
    /\ panelShown = FALSE
    /\ stats = notLoaded
    /\ insights = notLoaded
    /\ dashboardOpen

SaveHabit ==
    /\ Len(habits) < MaxHabits
    /\ \E named \in BOOLEAN, category \in HabitCategoryInputs : saveHabit(named, category)

NextHabits ==
    \/ SaveHabit
    \/ ToggleHabitCompletion
    \/ ToggleHabitDay
    \/ DeleteHabit
    \/ NextDay

SpecHabits == InitHabits /\ [][NextHabits]_vars

\* ------------------------------------------------------------------------
\* The habits page after importData: a habit from a file, with any completed
\* dates and up to MaxMalformed entries that are no dates; its streak in the
\* file is the streak of the dates.
\* ------------------------------------------------------------------------
InitImport ==
    /\ today \in Days
    /\ \E S \in SUBSET Days, n \in 0..MaxMalformed :
          habits = << [id |-> 1, category |-> "health",
                       streak |-> calculateCurrentStreak([completedDates |-> datesOf(S)]),
                       completedDates |-> datesOf(S), updatedAt |-> {},
                       malformed |-> n] >>
    /\ calendar = initializeCalendar
    /\ notificationHead = "Data Imported"
    /\ toast = "Data imported successfully!"
    /\ rendered = <<>>
    /\ goals = sampleGoals
    /\ projects = sampleProjects
    /\ notifications = welcomeNotifications
    /\ panelShown = FALSE
    /\ stats = notLoaded
    /\ insights = notLoaded
    /\ dashboardOpen

NextImport ==
    \/ ToggleHabitDay
    \/ NextDay

SpecImport == InitImport /\ [][NextImport]_vars

\* ------------------------------------------------------------------------
\* The notifications panel: addNotification, handleNotificationClick,
\* toggleNotifications, clearAllNotifications.  The handlers of the data
\* pages above keep the title of the newest notification only
\* (notificationHead); here the whole array is kept.  A notification's id and
\* timestamp are the day it was added on.
\* ------------------------------------------------------------------------
\* Mutant: the new notification goes to the end of the array.
unshift_AtEnd(list, item) == Append(list, item)

\* notifications.unshift(notification)
unshift(list, item) == <<item>> \o list

\* The toast of a notification shows its message, kept here by its title.
addNotification(title, type) ==
    /\ notifications' = unshift(notifications, notification(title, today))
    /\ notificationHead' = title
    /\ toast' = IF type \in {"error", "warning"} THEN title ELSE toast
    /\ UNCHANGED <<localStorage, restVars, today, habits, calendar, rendered,
                   goals, projects, panelShown, stats, insights>>

\* notifications.forEach(n => n.read = true)
markAllRead(list) == [i \in DOMAIN list |-> [list[i] EXCEPT !.read = TRUE]]

\* The panel after toggleNotifications, and the array it leaves.
toggledPanel(list, shown) ==
    IF shown THEN [notifications |-> list, panelShown |-> FALSE]
    ELSE [notifications |-> markAllRead(list), panelShown |-> TRUE]

toggleNotifications ==
    /\ notifications' = toggledPanel(notifications, panelShown).notifications
    /\ panelShown' = toggledPanel(notifications, panelShown).panelShown
    /\ UNCHANGED <<localStorage, restVars, today, habits, calendar, notificationHead, toast, rendered,
                   goals, projects, stats, insights>>

\* The clicked notification is marked read, then toggleNotifications runs.
handleNotificationClick(notificationId) ==
    LET i == find(notifications, notificationId)
    IN  IF i = 0 THEN UNCHANGED vars
        ELSE LET clicked == [notifications EXCEPT ![i].read = TRUE]
             IN  /\ notifications' = toggledPanel(clicked, panelShown).notifications
                 /\ panelShown' = toggledPanel(clicked, panelShown).panelShown
                 /\ UNCHANGED <<localStorage, restVars, today, habits, calendar, notificationHead, toast, rendered,
                                goals, projects, stats, insights>>

clearAllNotifications ==
    IF Len(notifications) = 0
    THEN /\ toast' = "No notifications to clear"
         /\ UNCHANGED <<localStorage, restVars, today, habits, calendar, notificationHead, rendered, pageVars>>
    ELSE /\ notifications' = <<>>
         /\ notificationHead' = "none"
         /\ toast' = "All notifications cleared"
         /\ UNCHANGED <<localStorage, restVars, today, habits, calendar, rendered,
                        goals, projects, panelShown, stats, insights>>

\* Notifications the application adds: an info one and a warning one.
NotificationInputs ==
    { [title |-> "Daily Reminder", type |-> "info"],
      [title |-> "Missed Day Detected", type |-> "warning"] }

AddNotification ==
    /\ Len(notifications) < MaxNotifications
    /\ \E input \in NotificationInputs : addNotification(input.title, input.type)

\* The panel lists the notifications; one of them is clicked.
HandleNotificationClick ==
    /\ panelShown
    /\ \E i \in DOMAIN notifications : handleNotificationClick(notifications[i].id)

ToggleNotifications == toggleNotifications

ClearAllNotifications == clearAllNotifications

NextNotifications ==
    \/ AddNotification
    \/ HandleNotificationClick
    \/ ToggleNotifications
    \/ ClearAllNotifications
    \/ NextDay

SpecNotifications == Init /\ [][NextNotifications]_vars

\* ------------------------------------------------------------------------
\* updateStats: the rates of the dashboard cards
\* ------------------------------------------------------------------------
\* calendar[today] || { tasks: [] }, then completed tasks over all tasks
todayProgress(cal, now) ==
    LET tasks == IF now \in DOMAIN cal THEN cal[now].tasks ELSE <<>>
        completedTasks == Cardinality({k \in DOMAIN tasks : tasks[k]})
        totalTasks == Len(tasks)
    IN  IF totalTasks > 0 THEN MathRound(completedTasks * 100, totalTasks) ELSE 0

goalsProgress(gs) ==
    IF Len(gs) > 0 THEN MathRound(completedCount(gs) * 100, Len(gs)) ELSE 0

updateStats(cal, gs, now) ==
    [progress |-> todayProgress(cal, now), goalsProgress |-> goalsProgress(gs)]

\* ------------------------------------------------------------------------
\* The data behind the rates: an account after importData of a file with the
\* sample goals, the sample project, one habit and a calendar of one record,
\* today's.  The items are completed, reopened and deleted, and today's
\* record is saved from the day modal with a task list, and deleted.
\* ------------------------------------------------------------------------
\* Task lists of the day modal, as the checked flag of each task.
TasksInputs == {<<>>, <<TRUE>>, <<TRUE, FALSE>>}

InitData ==
    /\ today \in Days
    /\ habits = << sampleHabits[1] >>
    /\ calendar = [d \in {today} |-> plannedDay]
    /\ notificationHead = "Data Imported"
    /\ toast = "Data imported successfully!"
    /\ rendered = <<>>
    /\ goals = sampleGoals
    /\ projects = sampleProjects
    /\ notifications = welcomeNotifications
    /\ panelShown = FALSE
    /\ stats = notLoaded
    /\ insights = notLoaded
    /\ dashboardOpen

\* The day modal opened for today: showDayModal(new Date())
SaveToday ==
    \E status \in Statuses, actualHours \in HoursInputs, tasks \in TasksInputs :
        saveDayData(today, status, actualHours, tasks)

NextData ==
    \/ ToggleGoalStatus
    \/ DeleteGoal
    \/ ToggleProjectStatus
    \/ DeleteProject
    \/ ToggleHabitCompletion
    \/ DeleteHabit
    \/ SaveToday
    \/ DeleteDayData

SpecData == InitData /\ [][NextData]_vars

\* ========================================================================
\* The session: DOMContentLoaded of dashboard.html, login and logout.
\* The page is "dashboard.html" once initializeApp has run, "index.html"
\* after a redirect or a logout; appData of a page that is not the dashboard
\* holds no record.
\* ========================================================================
\* handleNoUserSession redirects while redirect_count is below this.
RedirectLimit == 3

\* Mutant: the comparison admits the limit itself.
redirectAllowed_Inclusive(redirectCount) == redirectCount <= RedirectLimit

\* if (redirectCount < 3)
redirectAllowed(redirectCount) == redirectCount < RedirectLimit

\* checkForValidUser() returns a user.
checkForValidUser(storage) == storage.user # ""

\* initializeApp: loadAppData reads the stored calendar, and initializeCalendar
\* fills a calendar without records with a planned record for every day of
\* the year and saves it.
initializeApp ==
    /\ calendar' = IF DOMAIN localStorage.calendar = {}
                   THEN initializeCalendar ELSE localStorage.calendar
    /\ localStorage' = saveAppData(localStorage, calendar')
    /\ page' = "dashboard.html"
    /\ UNCHANGED <<sessionStorage, redirects, toast>>

\* forceFullReset: localStorage.clear(), sessionStorage.clear(), and the
\* browser is sent to index.html.
forceFullReset ==
    /\ localStorage' = clearedStorage
    /\ sessionStorage' = clearedSession
    /\ page' = "index.html"
    /\ calendar' = emptyCalendar
    /\ UNCHANGED <<redirects, toast>>

handleNoUserSession ==
    IF redirectAllowed(sessionStorage.redirect_count)
    THEN /\ redirects < MaxRedirects
         /\ sessionStorage' = [redirect_count |-> sessionStorage.redirect_count + 1]
         /\ redirects' = redirects + 1
         /\ toast' = "Your session has expired. Redirecting to login..."
         /\ page' = "index.html"
         /\ calendar' = emptyCalendar
         /\ UNCHANGED localStorage
    ELSE forceFullReset

\* The DOMContentLoaded handler of dashboard.html, for a navigation to the
\* page or a reload of it.
LoadDashboard ==
    /\ IF checkForValidUser(localStorage) THEN initializeApp ELSE handleNoUserSession
    /\ UNCHANGED <<today, habits, notificationHead, rendered, pageVars, flowVars, timerVars>>

\* login() of the login page stores the user it got under dailyflow_user; the
\* dashboard it then opens is a LoadDashboard step.
Login ==
    /\ page = "index.html"
    /\ localStorage.user = ""
    /\ localStorage' = [localStorage EXCEPT !.user = "user"]
    /\ UNCHANGED <<restVars, today, habits, calendar, notificationHead, toast, rendered,
                   pageVars>>

\* logout(): the user key is removed and the browser is sent to index.html.
Logout ==
    /\ page = "dashboard.html"
    /\ localStorage' = [localStorage EXCEPT !.user = ""]
    /\ page' = "index.html"
    /\ calendar' = emptyCalendar
    /\ UNCHANGED <<sessionStorage, redirects, flowVars, timerVars, today, habits,
                   notificationHead, toast, rendered, pageVars>>

\* autoSave, every 30 seconds while the dashboard is open.
AutoSave ==
    /\ page = "dashboard.html"
    /\ localStorage' = saveAppData(localStorage, calendar)
    /\ UNCHANGED <<restVars, today, habits, calendar, notificationHead, toast, rendered,
                   pageVars>>

\* importData: the file replaces every collection; a key the file lacks
\* becomes the empty collection.  The files are those of an account without
\* habits, goals, projects and notifications.
ImportedFiles ==
    { [calendar |-> cal, habits |-> <<>>, goals |-> <<>>, projects |-> <<>>,
       notifications |-> <<>>] :
        cal \in {emptyCalendar, [d \in {0} |-> plannedDay]} }

importData(confirmed, importedData) ==
    IF ~confirmed THEN UNCHANGED vars
    ELSE /\ calendar' = importedData.calendar
         /\ goals' = importedData.goals
         /\ projects' = importedData.projects
         /\ habits' = importedData.habits
         /\ notifications' =
               unshift(importedData.notifications, notification("Data Imported", today))
         /\ notificationHead' = "Data Imported"
         /\ toast' = "Data imported successfully!"
         /\ localStorage' = saveAppData(localStorage, calendar')
         /\ UNCHANGED <<restVars, today, rendered, panelShown, stats, insights>>

ImportData ==
    /\ page = "dashboard.html"
    /\ \E confirmed \in BOOLEAN, importedData \in ImportedFiles :
          importData(confirmed, importedData)

\* The day modal of today, saved with two hours logged.
SessionSaveToday ==
    /\ page = "dashboard.html"
    /\ \E status \in {"completed", "missed"} : saveDayData(today, status, 2, <<>>)

SessionDeleteDayData == page = "dashboard.html" /\ DeleteDayData

NextSession ==
    \/ LoadDashboard
    \/ Login
    \/ Logout
    \/ AutoSave
    \/ ImportData
    \/ SessionSaveToday
    \/ SessionDeleteDayData

SpecSession == Init /\ [][NextSession]_vars

\* ========================================================================
\* forgot-password.js: the password-reset flow.
\* An account's email is kept equal to its username.  The pending callbacks
\* of setTimeout are kept as a set, run in any order; two pending calls of
\* the same step count as one.  Toasts, focus and the displays of the page
\* are left out.
\* ========================================================================
\* A verification code has six digits.
CodeLength == 6

\* expiresAt: Date.now() + 300000, which is one unit of the clock.
CodeLifetime == 1

\* let secondsLeft = 5
GenerationSeconds == 5

\* The codes generateVerificationCode draws in the model.
Codes == { <<1, 2, 3, 4, 5, 6>>, <<6, 5, 4, 3, 2, 1>> }

\* What the six code inputs hold when verifyCode reads them.
EnteredCodes == Codes \cup { <<1, 2, 3>> }

\* The emails typed into #resetEmail: two accounts, an address without an
\* account and the empty input.
Emails == {"ann", "bob", "nobody", ""}

validateEmail(email) == email # ""

findUserInLocalStorage(email) ==
    IF email \in DOMAIN users
    THEN [username |-> email, password |-> users[email]]
    ELSE null

\* The variables the steps and the timers work on, as one record.
flow ==
    [currentStep |-> currentStep, foundUser |-> foundUser,
     countdownInterval |-> countdownInterval,
     codeGenerationInterval |-> codeGenerationInterval, timeouts |-> timeouts]

becomes(f) ==
    /\ currentStep' = f.currentStep
    /\ foundUser' = f.foundUser
    /\ countdownInterval' = f.countdownInterval
    /\ codeGenerationInterval' = f.codeGenerationInterval
    /\ timeouts' = f.timeouts

setTimeout(f, callback) == [f EXCEPT !.timeouts = @ \cup {callback}]

stopAllTimers(f) ==
    [f EXCEPT !.countdownInterval = FALSE, !.codeGenerationInterval = noInterval]

startCodeGeneration(f) ==
    [f EXCEPT !.codeGenerationInterval =
                  [running |-> TRUE, secondsLeft |-> GenerationSeconds]]

startCountdown(f) == [f EXCEPT !.countdownInterval = TRUE]

initializeStep1(f) == [f EXCEPT !.foundUser = null]

initializeStep2(f) ==
    IF f.foundUser = null THEN setTimeout(stopAllTimers(f), "showStep(1)")
    ELSE startCountdown(startCodeGeneration(stopAllTimers(f)))

initializeStep3(f) ==
    IF f.foundUser = null THEN setTimeout(stopAllTimers(f), "showStep(1)")
    ELSE stopAllTimers(f)

initializeStep4(f) == f

showStep(f, stepNumber) ==
    CASE stepNumber = 1 -> initializeStep1([f EXCEPT !.currentStep = 1])
      [] stepNumber = 2 -> initializeStep2([f EXCEPT !.currentStep = 2])
      [] stepNumber = 3 -> initializeStep3([f EXCEPT !.currentStep = 3])
      [] stepNumber = 4 -> initializeStep4([f EXCEPT !.currentStep = 4])

\* ---- step 1 ----
searchUserByEmail(email) ==
    IF ~validateEmail(email) THEN UNCHANGED vars
    ELSE /\ foundUser' = findUserInLocalStorage(email)
         /\ UNCHANGED <<currentStep, users, verification, countdownInterval,
                        codeGenerationInterval, timeouts, clock>>

\* The code is stored for the account in foundUser, which is searched by the
\* email only when it is null.
sendResetCode(email, verificationCode) ==
    LET user == IF foundUser = null THEN findUserInLocalStorage(email) ELSE foundUser
    IN IF ~validateEmail(email) THEN UNCHANGED vars
       ELSE IF user = null THEN UNCHANGED vars
       ELSE /\ verification' = [code |-> verificationCode, username |-> user.username,
                                expiresAt |-> clock + CodeLifetime]
            /\ foundUser' = user
            /\ timeouts' = timeouts \cup {"showStep(2)"}
            /\ UNCHANGED <<currentStep, users, countdownInterval,
                           codeGenerationInterval, clock>>

\* ---- step 2 ----
\* Mutant: a code that never expires.
expired_Never(storedCodeData, now) == FALSE

\* Date.now() > storedCodeData.expiresAt
expired(storedCodeData, now) == now > storedCodeData.expiresAt

verifyCode(enteredCode) ==
    IF Len(enteredCode) # CodeLength THEN UNCHANGED vars
    ELSE IF verification.code = <<>> \/ enteredCode # verification.code
    THEN UNCHANGED vars
    ELSE IF expired(verification, clock)
    THEN /\ becomes(showStep(flow, 1))
         /\ UNCHANGED <<users, verification, clock>>
    ELSE /\ timeouts' = timeouts \cup {"showStep(3)"}
         /\ UNCHANGED <<currentStep, foundUser, users, verification, countdownInterval,
                        codeGenerationInterval, clock>>

resendCode(newVerificationCode) ==
    IF foundUser = null
    THEN /\ becomes(showStep(flow, 1))
         /\ UNCHANGED <<users, verification, clock>>
    ELSE /\ verification' = [code |-> newVerificationCode, username |-> foundUser.username,
                             expiresAt |-> clock + CodeLifetime]
         /\ becomes(startCodeGeneration(startCountdown(flow)))
         /\ UNCHANGED <<users, clock>>

changeEmail ==
    /\ becomes(showStep(flow, 1))
    /\ UNCHANGED <<users, verification, clock>>

\* The callback of the code-generation timer: it counts secondsLeft down and
\* then clears itself and reveals the stored code; the reveal writes
\* foundUser.verificationCode, which throws when foundUser is null, after the
\* interval was cleared.
codeGenerationTick ==
    /\ codeGenerationInterval.running
    /\ codeGenerationInterval' =
          IF codeGenerationInterval.secondsLeft > 0
          THEN [codeGenerationInterval EXCEPT !.secondsLeft = @ - 1]
          ELSE noInterval
    /\ UNCHANGED <<currentStep, foundUser, users, verification, countdownInterval,
                   timeouts, clock>>

\* The callback of the expiry countdown: timeLeft-- leaves it above 0, or
\* reaches 0 and stopCountdown clears the interval.
countdownTick(reachesZero) ==
    /\ countdownInterval
    /\ countdownInterval' = ~reachesZero
    /\ UNCHANGED <<currentStep, foundUser, users, verification,
                   codeGenerationInterval, timeouts, clock>>

\* ---- step 3 ----
\* The passwords typed into #newPassword and #confirmPassword.
Passwords == {"", "weak", "Oldpass1", "Newpass1"}

\* checkPasswordStrength().score: one point each for length >= 8, an upper
\* case letter, a lower case letter and a digit.
score(password) ==
    CASE password = "" -> 0
      [] password = "weak" -> 1
      [] password \in {"Oldpass1", "Newpass1"} -> 4

\* What const strength = checkPasswordStrength() holds, by its score: the
\* function of the flow returns {score, checks}; the function of the same
\* name further down the file reads #password and returns undefined (-1
\* here), and is the one called when both are loaded as one script.
checkPasswordStrengthOutcomes(password) == {score(password), -1}

updateUserPassword(username, newPassword) == [users EXCEPT ![username] = newPassword]

\* resetPassword does not look at currentStep; with foundUser null and with
\* an undefined strength it throws before anything is stored.
resetPassword(newPassword, confirmPassword, strength) ==
    IF newPassword = "" \/ confirmPassword = "" THEN UNCHANGED vars
    ELSE IF newPassword # confirmPassword THEN UNCHANGED vars
    ELSE IF foundUser = null THEN UNCHANGED vars
    ELSE IF newPassword = foundUser.password THEN UNCHANGED vars
    ELSE IF strength < 3 THEN UNCHANGED vars
    ELSE IF foundUser.username \notin DOMAIN users THEN UNCHANGED vars
    ELSE /\ users' = updateUserPassword(foundUser.username, newPassword)
         /\ foundUser' = [foundUser EXCEPT !.password = newPassword]
         /\ verification' = noCode
         /\ timeouts' = timeouts \cup {"showStep(4)"}
         /\ UNCHANGED <<currentStep, countdownInterval, codeGenerationInterval, clock>>

\* ---- the events of the page ----
dashboardVars ==
    <<today, habits, calendar, notificationHead, toast, rendered, pageVars,
      localStorage, sessionVars, timerVars>>

SearchUserByEmail ==
    /\ currentStep = 1
    /\ \E email \in Emails : searchUserByEmail(email)
    /\ UNCHANGED dashboardVars

SendResetCode ==
    /\ currentStep = 1
    /\ \E email \in Emails, verificationCode \in Codes :
          sendResetCode(email, verificationCode)
    /\ UNCHANGED dashboardVars

VerifyCode ==
    /\ currentStep = 2
    /\ \E enteredCode \in EnteredCodes : verifyCode(enteredCode)
    /\ UNCHANGED dashboardVars

ResendCode ==
    /\ currentStep = 2
    /\ \E newVerificationCode \in Codes : resendCode(newVerificationCode)
    /\ UNCHANGED dashboardVars

ChangeEmail ==
    /\ currentStep = 2
    /\ changeEmail
    /\ UNCHANGED dashboardVars

\* resetPassword is the handler of the step 3 form and window.resetPassword.
ResetPassword ==
    /\ \E newPassword \in Passwords :
          \E confirmPassword \in {newPassword, "weak"},
             strength \in checkPasswordStrengthOutcomes(newPassword) :
              resetPassword(newPassword, confirmPassword, strength)
    /\ UNCHANGED dashboardVars

\* A pending showStep callback runs.
RunTimeout ==
    /\ \E stepNumber \in 1..4 :
          LET callback == CASE stepNumber = 1 -> "showStep(1)"
                            [] stepNumber = 2 -> "showStep(2)"
                            [] stepNumber = 3 -> "showStep(3)"
                            [] stepNumber = 4 -> "showStep(4)"
          IN /\ callback \in timeouts
             /\ becomes(showStep([flow EXCEPT !.timeouts = @ \ {callback}], stepNumber))
    /\ UNCHANGED <<users, verification, clock>>
    /\ UNCHANGED dashboardVars

CodeGenerationTick ==
    /\ codeGenerationTick
    /\ UNCHANGED dashboardVars

CountdownTick ==
    /\ \E reachesZero \in BOOLEAN : countdownTick(reachesZero)
    /\ UNCHANGED dashboardVars

\* 300000 ms pass.
ClockTick ==
    /\ clock < MaxClock
    /\ clock' = clock + 1
    /\ UNCHANGED <<currentStep, foundUser, users, verification, countdownInterval,
                   codeGenerationInterval, timeouts>>
    /\ UNCHANGED dashboardVars

NextFlow ==
    \/ SearchUserByEmail
    \/ SendResetCode
    \/ VerifyCode
    \/ ResendCode
    \/ ChangeEmail
    \/ ResetPassword
    \/ RunTimeout
    \/ CodeGenerationTick
    \/ CountdownTick
    \/ ClockTick

\* forgot-password.html after DOMContentLoaded: showStep(1).
InitFlow ==
    /\ today = 0
    /\ habits = sampleHabits
    /\ calendar = initializeCalendar
    /\ notificationHead = "Welcome to DailyFlow!"
    /\ toast = "none"
    /\ rendered = <<>>
    /\ goals = sampleGoals
    /\ projects = sampleProjects
    /\ notifications = welcomeNotifications
    /\ panelShown = FALSE
    /\ stats = notLoaded
    /\ insights = notLoaded
    /\ localStorage = [user |-> "", calendar |-> calendar]
    /\ sessionStorage = clearedSession
    /\ page = "forgot-password.html"
    /\ redirects = 0
    /\ scriptLoaded
    /\ timeOfDay = "before"
    /\ checkedThisMinute = {}

SpecFlow == InitFlow /\ [][NextFlow]_vars

\* ------------------------------------------------------------------------
\* The timers of the dashboard: checkMissedDays (one second after load and
\* every five minutes) and scheduleDailyReminder (every minute).  The settings
\* are the defaults: notifications on, dailyReminder '09:00'.  A day has the
\* minutes before the reminder minute, the reminder minute and the minutes
\* after it (timeOfDay).  scheduleDailyReminder is started twice, by the call
\* at script load and by initializeApp, and each call re-arms its own timeout
\* of 60000 ms: each of the two chains runs at most once in one minute, and
\* checkedThisMinute holds the chains that ran in the current one.
\* ------------------------------------------------------------------------
Chains == {"load", "app"}

\* The message of a notification, word by word.
messageOf(title) ==
    CASE title = "Missed Day Detected" ->
             <<"You", "didn't", "log", "any", "hours", "for", "yesterday.",
               "Click", "to", "log", "it", "now.">>
      [] title = "Daily Reminder" ->
             <<"Time", "to", "log", "your", "study", "hours", "for", "today!",
               "Click", "here", "to", "log", "now.">>
      [] OTHER -> <<>>

\* message.includes(words): the words appear in a row in the message.
messageIncludes(message, words) ==
    \E start \in 0..(Len(message) - Len(words)) :
        \A k \in 1..Len(words) : message[start + k] = words[k]

\* notifications.some(n => n.message && n.message.includes('missed logging')
\*     && new Date(n.timestamp).toDateString() === today.toDateString())
hasNotification(list, now) ==
    \E i \in DOMAIN list :
        /\ messageIncludes(messageOf(list[i].title), <<"missed", "logging">>)
        /\ list[i].timestamp = now

\* Yesterday has a record that is planned with no hours logged.
plannedNotLogged(cal, yesterdayStr) ==
    /\ yesterdayStr \in DOMAIN cal
    /\ cal[yesterdayStr].status = "planned"
    /\ cal[yesterdayStr].actualHours = 0

\* addNotification from a timer callback: the array, its head and the toast.
notified(title, type) ==
    /\ notifications' = unshift(notifications, notification(title, today))
    /\ notificationHead' = title
    /\ toast' = IF type \in {"error", "warning"} THEN title ELSE toast

checkMissedDays ==
    /\ IF plannedNotLogged(calendar, today - 1) /\ ~hasNotification(notifications, today)
       THEN notified("Missed Day Detected", "warning")
       ELSE UNCHANGED <<notifications, notificationHead, toast>>
    /\ UNCHANGED <<localStorage, sessionVars, flowVars, timerVars, today, habits, calendar,
                   rendered, goals, projects, panelShown, stats, insights>>

\* One run of the callback of chain; it re-arms itself for a minute later.
scheduleDailyReminder(chain) ==
    /\ IF timeOfDay = "reminder" /\ ~isCompletedDay(calendar, today)
       THEN notified("Daily Reminder", "info")
       ELSE UNCHANGED <<notifications, notificationHead, toast>>
    /\ checkedThisMinute' = checkedThisMinute \cup {chain}
    /\ UNCHANGED <<localStorage, sessionVars, flowVars, timeOfDay, today, habits, calendar,
                   rendered, goals, projects, panelShown, stats, insights>>

\* The timeout or interval of checkMissedDays fires.
CheckMissedDays ==
    /\ page = "dashboard.html"
    /\ Len(notifications) < MaxNotifications
    /\ checkMissedDays

\* The timeout of one of the chains fires.
ScheduleDailyReminder ==
    /\ page = "dashboard.html"
    /\ Len(notifications) < MaxNotifications
    /\ \E chain \in Chains \ checkedThisMinute : scheduleDailyReminder(chain)

\* The minute that follows a minute of the day.
nextMinute(minute) ==
    CASE minute = "before" -> {"before", "reminder"}
      [] minute = "reminder" -> {"after"}
      [] OTHER -> {"after"}

\* A minute of the clock passes.
MinutePasses ==
    /\ timeOfDay' \in nextMinute(timeOfDay)
    /\ checkedThisMinute' = {}
    /\ UNCHANGED <<localStorage, sessionVars, flowVars, today, habits, calendar,
                   notificationHead, toast, rendered, pageVars>>

\* Midnight passes with the dashboard open.
Midnight ==
    /\ today < MaxDay
    /\ today' = today + 1
    /\ timeOfDay' = "before"
    /\ checkedThisMinute' = {}
    /\ UNCHANGED <<localStorage, sessionVars, flowVars, habits, calendar,
                   notificationHead, toast, rendered, pageVars>>

NextTimers ==
    \/ CheckMissedDays
    \/ ScheduleDailyReminder
    \/ MinutePasses
    \/ Midnight
    \/ SessionSaveToday
    \/ ClearAllNotifications

SpecTimers == Init /\ [][NextTimers]_vars

\* ========================================================================
\* Properties
\* ========================================================================
\* The set of dates a completedDates array holds.
dateSet(habit) == DOMAIN habit.completedDates

\* The number of consecutive days, walking backward from day d inclusive,
\* that are in S: the n with d, d-1, .., d-n+1 in S and d-n not in S.
BackwardRun(S, d) ==
    CHOOSE n \in 0..(Cardinality(S)) :
        /\ \A k \in 0..(n - 1) : (d - k) \in S
        /\ (d - n) \notin S

\* The length of the longest run of consecutive days in S.
LongestRun(S) ==
    IF S = {} THEN 0
    ELSE Max({b - a + 1 : <<a, b>> \in {p \in S \X S : p[1] <= p[2] /\ \A x \in p[1]..p[2] : x \in S}})

\* A step is a call of toggleHabitDay / toggleHabitCompletion on an existing habit.
IsToggleHabitDay(habitId, dateStr) ==
    find(habits, habitId) # 0 /\ toggleHabitDay(habitId, dateStr)

IsToggleHabitCompletion(habitId) ==
    find(habits, habitId) # 0 /\ toggleHabitCompletion(habitId)

\* The habit with this id before and after the step.
Before(habitId) == habits[find(habits, habitId)]
After(habitId) == habits'[find(habits', habitId)]

\* C1: after every mutation of completedDates, in any order, the cached
\* streak of every habit equals calculateCurrentStreak of its completedDates.
C1_CachedStreakIsRecomputed ==
    \A i \in DOMAIN habits : habits[i].streak = calculateCurrentStreak(habits[i])

\* C2: the streak toggleHabitDay stores is the number of consecutive
\* completed days walking backward from today, 0 when today has no
\* completion; so a habit whose only completion is D-2 gets streak 0.
C2_StreakWalksBackFromToday ==
    [][\A habitId \in HabitIds, dateStr \in Days :
          (IsToggleHabitDay(habitId, dateStr) /\ isPastDate(dateStr, today))
          => After(habitId).streak = BackwardRun(dateSet(After(habitId)), today')]_vars

\* C3: when toggleHabitCompletion marks today complete, today joins
\* completedDates and the streak becomes the previous streak + 1 if yesterday
\* is in completedDates and 1 otherwise; a habit whose completions are
\* exactly D-1 and D has streak 2.
C3_MarkComplete ==
    /\ [][\A habitId \in HabitIds :
            (IsToggleHabitCompletion(habitId) /\ today \notin dateSet(Before(habitId)))
            => /\ dateSet(After(habitId)) = dateSet(Before(habitId)) \cup {today}
               /\ After(habitId).streak =
                     IF (today - 1) \in dateSet(Before(habitId))
                     THEN Before(habitId).streak + 1
                     ELSE 1]_vars
    /\ [](\A i \in DOMAIN habits :
            habits[i].completedDates = datesOf({today - 1, today}) => habits[i].streak = 2)

C3_Witness ==
    \E i \in DOMAIN habits :
        /\ habits[i].completedDates = datesOf({today - 1, today})
        /\ habits[i].streak = 2
        /\ habits[i].updatedAt = {today}
        /\ notificationHead = "Habit Completed!"

\* C4: when toggleHabitCompletion unmarks today, today leaves completedDates,
\* the other dates stay, and the streak becomes max(0, previous streak - 1);
\* the streak is never negative.
C4_MarkIncomplete ==
    /\ [][\A habitId \in HabitIds :
            (IsToggleHabitCompletion(habitId) /\ today \in dateSet(Before(habitId)))
            => /\ dateSet(After(habitId)) = dateSet(Before(habitId)) \ {today}
               /\ After(habitId).streak =
                     IF Before(habitId).streak >= 1 THEN Before(habitId).streak - 1 ELSE 0]_vars
    /\ [](\A i \in DOMAIN habits : habits[i].streak >= 0)

C4_Witness ==
    \E i \in DOMAIN habits :
        /\ notificationHead = "Habit Marked Incomplete"
        /\ today \notin dateSet(habits[i])
        /\ dateSet(habits[i]) # {}
        /\ habits[i].updatedAt = {today}
        /\ habits[i].streak = 1

\* C5: toggleHabitDay on a date before today toggles that date's membership,
\* keeps the other dates and stores calculateCurrentStreak of the result; on
\* today or a later date it leaves completedDates, streak and updatedAt of
\* every habit as they were.
C5_ToggleHabitDay ==
    [][\A habitId \in HabitIds, dateStr \in Days :
          IsToggleHabitDay(habitId, dateStr)
          => IF dateStr < today
             THEN /\ dateSet(After(habitId)) =
                        IF dateStr \in dateSet(Before(habitId))
                        THEN dateSet(Before(habitId)) \ {dateStr}
                        ELSE dateSet(Before(habitId)) \cup {dateStr}
                  /\ After(habitId).streak = calculateCurrentStreak(After(habitId))
             ELSE habits' = habits]_vars

C5_Witness ==
    /\ toast = "You can only edit past dates"
    /\ \E i \in DOMAIN habits :
          /\ habits[i].updatedAt # {}
          /\ habits[i].updatedAt # {today}
          /\ habits[i].streak >= 2

\* C6: a habit with an empty completion set has streak 0, recomputed streak 0
\* and contributes 0 to the best streak calculateHabitStats reports (which is 0
\* when every habit is empty); a habit with a single completion has streak 1.
C6_EmptyAndSingle ==
    /\ \A i \in DOMAIN habits :
          /\ length(habits[i].completedDates) = 0
             => habits[i].streak = 0 /\ calculateCurrentStreak(habits[i]) = 0
          /\ length(habits[i].completedDates) = 1
             => habits[i].streak = 1 /\ calculateCurrentStreak(habits[i]) = 1
    /\ (\A i \in DOMAIN habits : length(habits[i].completedDates) = 0)
          => calculateHabitStats(habits, today).bestStreak = 0

\* C7: the best streak calculateHabitStats reports is the historical maximum
\* run: the length of the longest run of consecutive completed days of any
\* habit, also after a toggle that breaks a run.
C7_BestStreakIsLongestRun ==
    calculateHabitStats(habits, today).bestStreak =
        Max({0} \cup {LongestRun(dateSet(habits[i])) : i \in DOMAIN habits})

\* The dates whose DayRecord exists with status 'completed'.
completedDaySet(cal) == {d \in DOMAIN cal : cal[d].status = "completed"}

\* C8: the calendar best streak is the length of the longest run of
\* consecutive calendar days whose records are completed, for every calendar
\* saveDayData and deleteDayData can produce.
C8_CalendarBestStreak ==
    calculateStreaks(calendar, today).bestStreak = LongestRun(completedDaySet(calendar))

\* C9: the calendar current streak is the number of consecutive days, walking
\* backward from today inclusive, whose record exists and is completed; it is
\* 0 when today has no record or today's record is not completed.
C9_CalendarCurrentStreak ==
    /\ calculateStreaks(calendar, today).currentStreak =
          BackwardRun(completedDaySet(calendar), today)
    /\ (today \notin DOMAIN calendar \/ calendar[today].status # "completed")
          => calculateStreaks(calendar, today).currentStreak = 0

C9_Witness ==
    /\ calculateStreaks(calendar, today).currentStreak = 2
    /\ (today - 2) \notin DOMAIN calendar
    /\ \E d \in DOMAIN calendar : d < today - 2 /\ calendar[d].status = "completed"

\* The integer nearest to 100 * K / WindowDays.
NearestPercent(K) ==
    CHOOSE r \in 0..100 : 2 * r * WindowDays - 200 * K \in (1 - WindowDays)..WindowDays

\* C10: the rendered week strip of a habit has 7 entries, one per day in
\* chronological order from today-6 to today, each flagged completed iff its
\* date is in completedDates, and only the last flagged today; with K completed
\* days in the window the weekly completion is round(100*K/7) (43 for K = 3),
\* whatever is completed outside the window.
C10_WeeklyCompletion ==
    \A i \in DOMAIN rendered :
        LET weekData == rendered[i].weekData
            K == Cardinality(dateSet(habits[i]) \cap ((today - 6)..today))
        IN  /\ Len(weekData) = 7
            /\ \A k \in 1..7 :
                  /\ weekData[k].date = today - 7 + k
                  /\ weekData[k].completed = (weekData[k].date \in dateSet(habits[i]))
                  /\ weekData[k].isToday = (k = 7)
            /\ rendered[i].weeklyCompletion = NearestPercent(K)
            /\ K = 3 => rendered[i].weeklyCompletion = 43

C10_Witness ==
    \E i \in DOMAIN rendered :
        /\ Cardinality(dateSet(habits[i]) \cap ((today - 6)..today)) = 3
        /\ \E d \in dateSet(habits[i]) : d < today - 6
        /\ rendered[i].weeklyCompletion = 43

\* C11: the day completion rate of the statistics snapshot is
\* 100 * (records with status 'completed') / (records) rounded to the nearest
\* integer, and 0 for a calendar without records; 10 completed days of 30
\* give 33.
C11_CompletionRate ==
    stats # notLoaded =>
        LET total == Cardinality(DOMAIN calendar)
            done == Cardinality(completedDaySet(calendar))
        IN  /\ total = 0 => stats.completionRate = 0
            /\ total > 0 => 2 * total * stats.completionRate - 200 * done \in (1 - total)..total
            /\ (total = 30 /\ done = 10) => stats.completionRate = 33

C11_Witness ==
    /\ stats # notLoaded
    /\ Cardinality(DOMAIN calendar) = 30
    /\ Cardinality(completedDaySet(calendar)) = 10
    /\ stats.completionRate = 33

\* C14: generateInsights returns at least 4 insight cards for every
\* statistics snapshot, padding with generic tips when fewer than 4 rules fire.
C14_AtLeastFourInsights ==
    insights # notLoaded => Len(insights) >= 4

\* The titles of the three consistency cards.
ConsistencyTitles == {"Outstanding Consistency!", "Good Progress", "Consistency Needed"}

\* Whether a card with the title is among the insights.
hasCard(cards, title) == \E i \in DOMAIN cards : cards[i].title = title

\* C15: the insights of a snapshot hold exactly one consistency card, as the
\* first card: 'Outstanding Consistency!' (success) for a completion rate of 80
\* or more, 'Good Progress' (info) from 60 up to 79, 'Consistency Needed'
\* (warning) below; the streak card is there iff the calendar current streak
\* is at least 7 and the hours card iff more than 100 hours are logged.
C15_InsightRules ==
    insights # notLoaded =>
        /\ insights[1] =
              IF stats.completionRate >= 80
              THEN [type |-> "success", title |-> "Outstanding Consistency!"]
              ELSE IF stats.completionRate >= 60
              THEN [type |-> "info", title |-> "Good Progress"]
              ELSE [type |-> "warning", title |-> "Consistency Needed"]
        /\ Cardinality({i \in DOMAIN insights : insights[i].title \in ConsistencyTitles}) = 1
        /\ hasCard(insights, "-Day Streak!")
              <=> BackwardRun(completedDaySet(calendar), today) >= 7
        /\ hasCard(insights, "Learning Champion") <=> totalHours(calendar) > 100

C15_Witness ==
    /\ insights # notLoaded
    /\ insights[1].title = "Good Progress"
    /\ stats.completionRate = 60
    /\ hasCard(insights, "-Day Streak!")
    /\ stats.streak.current >= 7
    /\ hasCard(insights, "Learning Champion")
    /\ stats.totalHours > 100

\* C16: the category breakdown is a partition of the goals and habits: the
\* category totals add up to the number of goals plus the number of habits,
\* whatever category the goal and habit forms stored.
C16_BreakdownIsPartition ==
    LET snapshot == calculateAllStatistics(calendar, goals, projects, habits, today)
        categories == <<"study", "work", "personal", "health">>
    IN  SeqSum([i \in 1..4 |-> snapshot.categoryBreakdown[categories[i]].total])
            = Len(goals) + Len(habits)

\* A step is a call of updateProjectProgress on an existing project with an
\* answer that was entered.
IsUpdateProjectProgress(projectId, answer) ==
    find(projects, projectId) # 0 /\ answer.entered /\ updateProjectProgress(projectId, answer)

\* C19: the progress of every stored project is an integer from 0 to 100 after
\* any sequence of saveProject, updateProject, updateProjectProgress and
\* toggleProjectStatus; a number outside the range (or no number) entered in
\* updateProjectProgress is rejected and leaves the projects as they were.
C19_ProgressInRange ==
    /\ [](\A i \in DOMAIN projects : projects[i].progress \in 0..100)
    /\ [][\A projectId \in ProjectIds, answer \in PromptAnswers :
             (IsUpdateProjectProgress(projectId, answer)
                 /\ (~answer.numeric \/ answer.value \notin 0..100))
             => (projects' = projects /\ toast' = "Please enter a valid percentage (0-100)")]_vars

C19_Witness ==
    /\ toast = "Please enter a valid percentage (0-100)"
    /\ \E i \in DOMAIN projects : projects[i].progress = 50 /\ projects[i].status = "planned"

\* A step is a call of addNotification.
IsAddNotification ==
    \E input \in NotificationInputs : addNotification(input.title, input.type)

\* C20: the notification list is ordered newest-first after any sequence of
\* addNotification, handleNotificationClick and toggleNotifications calls:
\* no notification is older than one after it in the list, and a notification
\* just added is at the head of the list, in front of the ones there before.
C20_NewestFirst ==
    /\ [](\A i, j \in DOMAIN notifications :
             i < j => notifications[i].timestamp >= notifications[j].timestamp)
    /\ [][IsAddNotification =>
             /\ notifications'[1].timestamp = today
             /\ ~notifications'[1].read
             /\ Tail(notifications') = notifications]_vars

C20_Witness ==
    /\ Len(notifications) = 3
    /\ notifications[1].timestamp > notifications[2].timestamp
    /\ notifications[2].timestamp > notifications[3].timestamp
    /\ notifications[2].read
    /\ ~notifications[1].read

\* C18: the completedDates of a habit created by saveHabit never holds a date
\* twice, after any sequence of toggleHabitCompletion and toggleHabitDay calls
\* and day changes.
C18_NoDuplicateDates ==
    \A i \in DOMAIN habits :
        \A d \in DOMAIN habits[i].completedDates : habits[i].completedDates[d] = 1

C18_Witness ==
    \E i \in DOMAIN habits :
        /\ habits[i].category \in HabitCategories
        /\ today \in dateSet(habits[i])
        /\ Cardinality(dateSet(habits[i])) = 3
        /\ toast = "Removed completion"

\* The habit without the entries of completedDates that are no dates.
wellFormed(habit) == [completedDates |-> habit.completedDates]

\* C17: entries of completedDates that are no dates count as absent: the
\* streak calculateCurrentStreak returns, which toggleHabitDay stores, is the
\* streak of the completion set with those entries removed.
C17_MalformedDatesAreAbsent ==
    \A i \in DOMAIN habits :
        habits[i].streak = calculateCurrentStreak(wellFormed(habits[i]))

\* The statistics snapshot of the current data.
snapshot == calculateAllStatistics(calendar, goals, projects, habits, today)

\* C12: every rate computed from a collection is a number, and is 0 when the
\* collection is empty, also after the last goal, project, habit or day record
\* has been deleted: the goal rate, the project rate, the day completion rate,
\* the habit completion rate, today's habit completion and today's task
\* progress.
C12_RatesOfEmptyCollections ==
    /\ snapshot.goals.rate \in Nat /\ goalsProgress(goals) \in Nat
    /\ snapshot.projects.rate \in Nat
    /\ snapshot.completionRate \in Nat
    /\ snapshot.habitCompletionRate \in Nat
    /\ calculateHabitStats(habits, today).todayCompletion \in Nat
    /\ todayProgress(calendar, today) \in Nat
    /\ Len(goals) = 0 => snapshot.goals.rate = 0 /\ goalsProgress(goals) = 0
    /\ Len(projects) = 0 => snapshot.projects.rate = 0
    /\ DOMAIN calendar = {} => snapshot.completionRate = 0
    /\ Len(habits) = 0 =>
          /\ snapshot.habitCompletionRate = 0
          /\ calculateHabitStats(habits, today).todayCompletion = 0
    /\ (today \notin DOMAIN calendar \/ Len(calendar[today].tasks) = 0)
          => todayProgress(calendar, today) = 0

C12_Witness ==
    /\ Len(goals) = 0 /\ notificationHead = "Goal Deleted"
    /\ Len(projects) = 0
    /\ Len(habits) = 0
    /\ DOMAIN calendar = {} /\ toast = "Day data deleted"

\* C13: in every state the day, goal, project and habit operations reach,
\* every percentage of the statistics is an integer from 0 to 100:
\* completionRate, goals.rate, projects.rate, habitCompletionRate,
\* todayCompletion and the weekly completion of every habit.
C13_PercentagesInRange ==
    /\ snapshot.completionRate \in 0..100
    /\ snapshot.goals.rate \in 0..100
    /\ snapshot.projects.rate \in 0..100
    /\ snapshot.habitCompletionRate \in 0..100
    /\ calculateHabitStats(habits, today).todayCompletion \in 0..100
    /\ \A i \in DOMAIN habits :
          calculateWeeklyCompletion(getLast7DaysData(habits[i], today)) \in 0..100

C13_Witness ==
    /\ snapshot.completionRate = 100
    /\ snapshot.goals.rate = 50
    /\ snapshot.projects.rate = 100
    /\ calculateHabitStats(habits, today).todayCompletion = 100
    /\ \E i \in DOMAIN habits :
          calculateWeeklyCompletion(getLast7DaysData(habits[i], today)) = 14

\* ------------------------------------------------------------------------
\* The session
\* ------------------------------------------------------------------------
\* A confirmed import of any of the files.
IsImportData == \E importedData \in ImportedFiles : importData(TRUE, importedData)

\* The record of day d leaves the stored calendar, or leaves appData.calendar
\* while the dashboard stays open.
recordRemoved(d) ==
    \/ d \in DOMAIN localStorage.calendar /\ d \notin DOMAIN localStorage'.calendar
    \/ /\ page = "dashboard.html" /\ page' = "dashboard.html"
       /\ d \in DOMAIN calendar /\ d \notin DOMAIN calendar'

\* C21: a DayRecord that exists in memory or in the stored calendar of the
\* user is removed only by deleteDayData of its date or by a confirmed import:
\* no page load, missing-session handling, redirect-loop reset or auto-save
\* removes it.  (Creation is read with initializeCalendar's first fill of an
\* empty calendar counted as the first write to each date.)
C21_NeverAutoDeleted ==
    [][\A d \in Days : recordRemoved(d) => deleteDayData(d, TRUE) \/ IsImportData]_vars

\* A dashboard load that finds no valid user.
IsNoUserLoad == LoadDashboard /\ ~checkForValidUser(localStorage)

\* What such a load does: below the limit a redirect that counts
\* redirect_count up and leaves the storage alone, at the limit the full
\* reset of both storages instead.
redirectOrReset ==
    IF sessionStorage.redirect_count < RedirectLimit
    THEN /\ sessionStorage'.redirect_count = sessionStorage.redirect_count + 1
         /\ redirects' = redirects + 1
         /\ localStorage' = localStorage
    ELSE /\ localStorage' = clearedStorage
         /\ sessionStorage' = clearedSession
         /\ redirects' = redirects

\* C23 as stated: on dashboard loads without a valid user handleNoUserSession
\* redirects at most 3 times per browser session, the next such load performs
\* the full storage reset instead, and redirect_count never exceeds 3.
C23_AtMostThreeRedirectsPerSession ==
    /\ [](redirects <= RedirectLimit /\ sessionStorage.redirect_count <= RedirectLimit)
    /\ [][IsNoUserLoad => redirectOrReset]_vars

\* C23, amended: handleNoUserSession redirects at most 3 times for each run of
\* redirect_count from 0 to 3 (every redirect counts it up by one), the next
\* load without a valid user performs the full storage reset instead, which
\* takes redirect_count back to 0, and redirect_count never exceeds 3.
C23_AtMostThreeRedirectsPerCount ==
    /\ [](sessionStorage.redirect_count \in 0..RedirectLimit)
    /\ [][IsNoUserLoad => redirectOrReset]_vars
    /\ [][redirects' # redirects => IsNoUserLoad]_vars

\* Three redirects and then the reset: the storages are cleared and the
\* session has not redirected a fourth time yet.
C23_Witness ==
    /\ redirects = RedirectLimit
    /\ sessionStorage = clearedSession
    /\ localStorage = clearedStorage
    /\ page = "index.html"

\* ------------------------------------------------------------------------
\* The password-reset flow
\* ------------------------------------------------------------------------
\* The entered code passes: six digits, equal to the stored code, and the
\* clock is not after the stored expiresAt.
passes(enteredCode) ==
    /\ Len(enteredCode) = CodeLength
    /\ verification.code # <<>>
    /\ enteredCode = verification.code
    /\ clock <= verification.expiresAt

\* A step of verifyCode, called in step 2, with the entered code.
IsVerifyCode(enteredCode) == currentStep = 2 /\ verifyCode(enteredCode)

\* C22: verifyCode moves to step 3 (through the showStep(3) it schedules, the
\* only one there is) only when six digits are entered, they equal the stored
\* code and the current time is not after its expiresAt; a mismatch leaves the
\* flow at step 2 with the stored code unchanged, and a matching but expired
\* code returns the flow to step 1.
C22_VerifyCode ==
    /\ [][\A enteredCode \in EnteredCodes :
             IsVerifyCode(enteredCode) =>
                /\ passes(enteredCode) =>
                      "showStep(3)" \in timeouts' /\ currentStep' = 2
                /\ ~passes(enteredCode) => timeouts' = timeouts /\ currentStep' # 3
                /\ (Len(enteredCode) = CodeLength /\ enteredCode # verification.code) =>
                      currentStep' = 2 /\ verification' = verification
                /\ (enteredCode = verification.code /\ clock > verification.expiresAt) =>
                      currentStep' = 1]_vars
    /\ [][("showStep(3)" \in timeouts' /\ "showStep(3)" \notin timeouts) =>
             \E enteredCode \in EnteredCodes :
                 IsVerifyCode(enteredCode) /\ passes(enteredCode)]_vars
    /\ [][(currentStep' = 3 /\ currentStep # 3) => "showStep(3)" \in timeouts]_vars

\* Step 3 is shown for the account the stored code was issued to, after a
\* code was entered when the first one had expired and a new one was sent.
C22_Witness ==
    /\ currentStep = 3
    /\ foundUser # null
    /\ verification.username = foundUser.username
    /\ verification.expiresAt > CodeLifetime

C28_TimersRunOnlyInStep2 ==
    /\ []((countdownInterval \/ codeGenerationInterval.running) => currentStep = 2)
    /\ [][(codeGenerationTick /\ codeGenerationInterval.secondsLeft = 0) =>
             foundUser # null]_vars

\* ------------------------------------------------------------------------
\* Habits made by saveHabit
\* ------------------------------------------------------------------------
\* C24: in every state reached from habits created by saveHabit through
\* toggleHabitCompletion, toggleHabitDay and day changes, the cached streak of
\* each habit is at least 0 and at most the number of dates in completedDates.
C24_StreakWithinDates ==
    \A i \in DOMAIN habits :
        /\ 0 <= habits[i].streak
        /\ habits[i].streak <= length(habits[i].completedDates)

\* A habit made by saveHabit with two completed dates: a streak of 2 on
\* consecutive days, reached by marking a past day and today.
C24_Witness ==
    \E i \in DOMAIN habits :
        /\ habits[i].streak = 2
        /\ length(habits[i].completedDates) = 2
        /\ includes(habits[i].completedDates, today)

\* C25: for every calendar saveDayData, deleteDayData and day changes produce,
\* the current streak calculateStreaks returns is at most the best streak it
\* returns.
C25_CurrentAtMostBest ==
    calculateStreaks(calendar, today).currentStreak
        <= calculateStreaks(calendar, today).bestStreak

\* Two completed days back from today, and an older completed day beyond a
\* day without a record: the current streak is 2 and the best streak is 3.
C25_Witness ==
    /\ calculateStreaks(calendar, today).currentStreak = 2
    /\ calculateStreaks(calendar, today).bestStreak = 3
    /\ (today - 2) \notin DOMAIN calendar

\* The habit after one call of toggleHabitCompletion on the day now.
completionToggled(habit, now) ==
    IF includes(habit.completedDates, now) THEN markIncomplete(habit, now)
    ELSE markComplete(habit, now)

\* Toggling is undone by toggling again: the completed dates and the cached
\* streak of after are those of before.
restored(before, after) ==
    /\ dateSet(after) = dateSet(before)
    /\ after.streak = before.streak

\* C26: from every habit state saveHabit, the toggles and day changes reach,
\* two calls of toggleHabitCompletion on the same day, and two calls of
\* toggleHabitDay on the same past date, leave the habit's completed dates and
\* its cached streak as they were before the first call.
C26_DoubleToggleRestores ==
    \A i \in DOMAIN habits :
        /\ restored(habits[i],
                    completionToggled(completionToggled(habits[i], today), today))
        /\ \A dateStr \in Days :
              isPastDate(dateStr, today)
                  => restored(habits[i], toggleDay(toggleDay(habits[i], dateStr), dateStr))

\* The notifications of the array with this title that were added on day now.
addedOn(list, title, now) ==
    {i \in DOMAIN list : list[i].title = title /\ list[i].timestamp = now}

\* C29: while yesterday's record is planned with 0 actual hours, the runs of
\* checkMissedDays add at most one 'Missed Day Detected' notification on one
\* calendar day.
C29_OneMissedDayNotificationPerDay ==
    plannedNotLogged(calendar, today - 1)
        => Cardinality(addedOn(notifications, "Missed Day Detected", today)) <= 1

\* C30: at most one 'Daily Reminder' notification is added on one calendar
\* day, however the callbacks of the two scheduleDailyReminder chains
\* interleave.
C30_OneDailyReminderPerDay ==
    Cardinality(addedOn(notifications, "Daily Reminder", today)) <= 1

====
